---- MODULE Spec2Model ----
(***************************************************************************)
(* Shadow Caster Isometric Mapper: the isometric compositing engine        *)
(* (isomap.py), the tile/sprite catalog (shadowdb.py) and the level        *)
(* records (shadowmap.py, mapcatelog.py) as a state machine.               *)
(*                                                                         *)
(* isomap.py is Python 2 code (print statements): "/" on integers is the   *)
(* floor division, written \div here.                                      *)
(*                                                                         *)
(* The canvas (mappicture) is the sequence of paste/line operations        *)
(* applied to the background-filled image; a canvas with no operation is   *)
(* entirely background colour.                                             *)
(***************************************************************************)
EXTENDS Integers, Sequences, FiniteSets, TLC

VARIABLES
    pc,            \* position in the run
    mapdata,       \* shadowmap.Map of the level: layers and entity lumps
    catelogentry,  \* mapcatelog.Mapentry of the level: markup, changes, replacements
    maxceil,       \* isomap.maxceil
    minfloor,      \* isomap.minfloor
    data,          \* isomap.data: the MapSpots that carry attached entities
    creatures,     \* db.creatures, rebuilt per level
    faces,         \* walltile.faces of every wall and door tile of the catalog
    gencalls,      \* the calls of generate_isometric so far
    mappicture,    \* the canvas: the paint operations applied so far
    minx, maxx, miny, maxy,   \* the crop box
    pos,           \* generate(): how many spots of self.data were taken so far
    lastspot,      \* index of the spot of the latest draw() call, -1 before
    lastret,       \* what the latest draw() call returned
    passes,        \* how many generate() calls the run still makes
    calls,         \* the calls made so far: prepare_size() on a tile, DatFile() on a
                   \* directory, and what each completed generate() left
    handles,       \* the file handle of each archive: unopened, open or closed
    libdb,         \* LibFile.db: the lumps of the lib archive by name
    datlumps,      \* DatFile.idxdata: the lumps of the dat archive in directory order
    lasterr        \* the exception the latest archive operation raised, or none

vars == <<pc, mapdata, catelogentry, maxceil, minfloor, data, creatures, faces,
          gencalls, mappicture, minx, maxx, miny, maxy, pos, lastspot, lastret,
          passes, calls, handles, libdb, datlumps, lasterr>>

\* the archives, and the level being drawn (all but pc)
archivevars == <<handles, libdb, datlumps, lasterr>>
levelvars == <<mapdata, catelogentry, maxceil, minfloor, data, creatures, faces,
               gencalls, mappicture, minx, maxx, miny, maxy, pos, lastspot,
               lastret, passes, calls>>

----------------------------------------------------------------------------
(* Program constants *)

\* shadowmap.py: directional constants
NORTH == 0
WEST == 1
\* prepare_size(spot, direction=None)
NoDirection == 2

\* shadowmap.py: layer enum
FLOOR == 0
FLOORHEIGHT == 1
CEILING == 2
CEILINGHEIGHT == 3
NORTHWALL == 4
NORTHWALLHEIGHT == 5
WESTWALL == 6
WESTWALLHEIGHT == 7
UNKNOWN == 8

\* the level is a 32 x 32 grid
GridSize == 32
NumCells == GridSize * GridSize
Cells == 0 .. (NumCells - 1)
Layers == 0 .. 8

Max2(a, b) == IF a >= b THEN a ELSE b
Min2(a, b) == IF a <= b THEN a ELSE b

SetMax(S) == CHOOSE m \in S : \A e \in S : e <= m
SetMin(S) == CHOOSE m \in S : \A e \in S : m <= e

\* the empty dictionary
EmptyDict == [k \in {} |-> 0]

DictPut(d, k, v) == [j \in (DOMAIN d) \cup {k} |-> IF j = k THEN v ELSE d[j]]

\* the archives of a run: the lib file and the two dat files
ArchiveNames == {"lib", "cddat", "hddat"}

\* no archive was opened yet
ArchivesUnopened ==
    /\ handles = [a \in ArchiveNames |-> "unopened"]
    /\ libdb = EmptyDict
    /\ datlumps = <<>>
    /\ lasterr = [op |-> "none", err |-> "none"]

----------------------------------------------------------------------------
(* The catalog (shadowdb.db) *)

\* A catalog entry: kind is the Python class of the entry ("None" for None),
\* name identifies the tile, w x h is the size of its image, height the
\* sprite's declared height, float whether the sprite has a floatimage.
Tile(kind, name, w, h, height, float) ==
    [kind |-> kind, name |-> name, w |-> w, h |-> h, height |-> height,
     float |-> float]

None == Tile("None", "none", 0, 0, 0, FALSE)

emptytile == Tile("emptytile", "empty", 0, 0, 0, FALSE)

\* the images of cddat.idxdata['walls'] in directory order: every wall image
\* is 64 wide, its height is 4 * quarterHeight
WallLumps == <<[name |-> "wall1", h |-> 64], [name |-> "wall2", h |-> 128]>>

\* the number of lumps of cddat.idxdata['flats']
FlatLumps == <<"flat1", "flat2", "flat3">>

\* db.walls: walls[index+1] = walltile(lump), then walls[0] = emptytile
walls(id) ==
    IF id = 0 THEN emptytile
    ELSE IF id \in 1 .. Len(WallLumps)
         THEN Tile("walltile", WallLumps[id].name, 64, WallLumps[id].h, 0, FALSE)
         ELSE None

\* db.floors: floors[index+1] = floortile(lump), then floors[1] = emptytile
floors(id) ==
    IF id = 1 THEN emptytile
    ELSE IF id \in 1 .. Len(FlatLumps)
         THEN Tile("floortile", FlatLumps[id], 64, 64, 0, FALSE)
         ELSE None

\* db.items: 256 sprites with a float image (a 64 x 64 placeholder unless
\* loaditems replaces it), the skull (29) declared at height 32, and
\* items[0] = emptytile
items(id) ==
    IF id = 0 THEN emptytile
    ELSE IF id = 29 THEN Tile("sprite", "skull", 24, 20, 32, TRUE)
    ELSE IF id = 1 THEN Tile("sprite", "icewand", 30, 12, 0, TRUE)
    ELSE Tile("sprite", "placeholder", 64, 64, 0, TRUE)

\* db.doors: a thintile per door group of the walls block
DoorNames == {"door1", "irondoor"}
doors(name) == Tile("thintile", name, 64, 96, 0, FALSE)

\* db.objects: a sprite per sprite group; objectprefs gives the ceiling
\* objects height -1
CeilingObjects == {"ceilingball", "ceilinghook", "chain", "chandelier",
                   "chandelierdark"}
ObjectNames == {"barrel", "chain", "skelstatue"}
objects(name) ==
    Tile("sprite", name, 40, 70,
         IF name \in CeilingObjects THEN -1 ELSE 0, FALSE)

\* Actor.__init__: the height class of an actor template
ActorHeight(heightdata) ==
    IF heightdata = 8 THEN 64
    ELSE IF heightdata = 17 THEN -1
    ELSE 0

\* a table that keeps the entries of the levels before
loadcreaturesNoReset(actors) ==
    LET ids == {actors[j].actorid : j \in 1 .. Len(actors)}
        last(id) == SetMax({j \in 1 .. Len(actors) : actors[j].actorid = id})
    IN [id \in ids \cup DOMAIN creatures |->
          IF id \in ids
          THEN Tile("sprite", actors[last(id)].sprite, 48, 80,
                    actors[last(id)].height, FALSE)
          ELSE creatures[id]]

\* db.loadcreatures: self.creatures = {} and one sprite per actor
loadcreatures(actors) ==
    LET ids == {actors[j].actorid : j \in 1 .. Len(actors)}
        \* a later actor with the same id overwrites an earlier one
        last(id) == SetMax({j \in 1 .. Len(actors) : actors[j].actorid = id})
    IN [id \in ids |->
          Tile("sprite", actors[last(id)].sprite, 48, 80,
               actors[last(id)].height, FALSE)]

----------------------------------------------------------------------------
(* Level records (shadowmap.py) and the per-map catalog entry *)

\* an index with the coordinates swapped
mapindexSwapped(x, y) == x * 32 + y

\* Map.mapindex
mapindex(x, y) == y * 32 + x

\* an item whose suby is read from another field than subx (here one that
\* holds 0)
ItemSubyOtherField(uniqid, x, y, itemtype, field9) ==
    [uniqid |-> uniqid, x |-> x, y |-> y, itemtype |-> itemtype,
     subx |-> field9, suby |-> 0]

\* Item.__init__: subx and suby are both read from record field 9
Item(uniqid, x, y, itemtype, field9) ==
    [uniqid |-> uniqid, x |-> x, y |-> y, itemtype |-> itemtype,
     subx |-> field9, suby |-> field9]

\* ShObject.__init__: subx and suby are record fields 13 and 14
ShObject(uniqid, name, x, y, field13, field14) ==
    [uniqid |-> uniqid, name |-> name, x |-> x, y |-> y,
     subx |-> field13, suby |-> field14]

\* Door.__init__: orientation 0 in the record is WEST, anything else NORTH
Door(name, orientation, x, y) ==
    [name |-> name, orientation |-> IF orientation = 0 THEN WEST ELSE NORTH,
     x |-> x, y |-> y]

\* Creature.__init__: the sub-position is fixed at the middle of the cell
Creature(crtype, x, y) ==
    [crtype |-> crtype, x |-> x, y |-> y, subx |-> 32, suby |-> 32]

\* Actor.__init__
Actor(actorid, sprite, heightdata) ==
    [actorid |-> actorid, sprite |-> sprite, height |-> ActorHeight(heightdata)]

\* mapdata.maplump.layers[layer][i]: the cells listed in m.cells carry their own
\* layer values, every other cell of the level carries m.fill
LayerAt(m, layer, i) ==
    IF i \in DOMAIN m.cells THEN m.cells[i][layer] ELSE m.fill[layer]

\* the values a layer takes over the 1024 cells
LayerValues(m, layer) ==
    {m.cells[i][layer] : i \in DOMAIN m.cells}
        \cup (IF Cells \subseteq DOMAIN m.cells THEN {} ELSE {m.fill[layer]})

\* Mapentry.applymods: a change keyed by the cell index, then a replacement
\* keyed by the original layer value
applymods(entry, layervals, index) ==
    [l \in Layers |->
        IF layervals[l] \in DOMAIN entry.replacements[l]
        THEN entry.replacements[l][layervals[l]]
        ELSE IF index \in DOMAIN entry.changes[l]
             THEN entry.changes[l][index]
             ELSE layervals[l]]

----------------------------------------------------------------------------
(* MapSpot (isomap.py) *)

\* MapSpot.__init__: x, y from the index
SpotX(index) == index % 32
SpotY(index) == index \div 32

\* a projection with the sign of y slipped (the cells of one anti-diagonal
\* fall on one canvas origin)
IsoXSignSlip(x, y) == 32 * 64 + (x + y) * 64

\* MapSpot.__init__: the canvas origin of the cell
IsoX(x, y) == 32 * 64 + (x - y) * 64
IsoY(x, y) == (x + y) * 32

\* MapSpot.__init__
MapSpot(index, rawlayervals, mxceil, entry) ==
    LET layervals == applymods(entry, rawlayervals, index)
        floor == floors(layervals[FLOOR])
        x == SpotX(index)
        y == SpotY(index)
    IN [index |-> index,
        floor |-> floor,
        wall |-> <<walls(layervals[NORTHWALL]), walls(layervals[WESTWALL])>>,
        floordepth |-> mxceil - layervals[FLOORHEIGHT],
        ceildepth |-> mxceil - layervals[CEILINGHEIGHT],
        wallorigins |-> <<mxceil - layervals[NORTHWALLHEIGHT],
                          mxceil - layervals[WESTWALLHEIGHT]>>,
        solid |-> (floor.kind = "emptytile"),
        x |-> x,
        y |-> y,
        isox |-> IsoX(x, y),
        isoy |-> IsoY(x, y),
        door |-> None,
        doordata |-> <<>>,
        items |-> <<>>,
        itemdata |-> <<>>,
        creature |-> None,
        creaturedata |-> <<>>,
        objects |-> <<>>,
        objectdata |-> <<>>,
        markupdata |-> <<>>]

\* MapSpot.adddoor
adddoor(spot, door) ==
    [spot EXCEPT !.doordata = <<door>>, !.door = doors(door.name)]

\* an unstable sort by subx: an element goes in front of the elements of
\* equal key
RECURSIVE SortedBySubxUnstable(_)
SortedBySubxUnstable(seq) ==
    IF seq = <<>> THEN <<>>
    ELSE LET n == Len(seq)
             init == SortedBySubxUnstable(SubSeq(seq, 1, n - 1))
             e == seq[n]
             keep == {j \in 1 .. Len(init) : init[j].subx < e.subx}
             k == IF keep = {} THEN 0 ELSE SetMax(keep)
         IN SubSeq(init, 1, k) \o <<e>> \o SubSeq(init, k + 1, Len(init))

\* sorted(seq, key=attrgetter('subx')): a stable sort, here by insertion of
\* each element behind the elements whose key is not larger
RECURSIVE SortedBySubx(_)
SortedBySubx(seq) ==
    IF seq = <<>> THEN <<>>
    ELSE LET n == Len(seq)
             init == SortedBySubx(SubSeq(seq, 1, n - 1))
             e == seq[n]
             keep == {j \in 1 .. Len(init) : init[j].subx <= e.subx}
             k == IF keep = {} THEN 0 ELSE SetMax(keep)
         IN SubSeq(init, 1, k) \o <<e>> \o SubSeq(init, k + 1, Len(init))

\* MapSpot.additems
additems(spot, itemlist) ==
    LET sorted == SortedBySubx(itemlist)
    IN [spot EXCEPT
          !.itemdata = spot.itemdata \o sorted,
          !.items = spot.items \o
                      [j \in 1 .. Len(sorted) |-> items(sorted[j].itemtype)]]

\* MapSpot.addobjects
addobjects(spot, shobjects) ==
    LET sorted == SortedBySubx(shobjects)
    IN [spot EXCEPT
          !.objectdata = spot.objectdata \o sorted,
          !.objects = spot.objects \o
                        [j \in 1 .. Len(sorted) |-> objects(sorted[j].name)]]

\* MapSpot.addcreature
addcreature(spot, creature, crtable) ==
    [spot EXCEPT !.creaturedata = <<creature>>,
                 !.creature = crtable[creature.crtype]]

\* MapSpot.addmarkup
addmarkup(spot, markupitem) ==
    [spot EXCEPT !.markupdata = Append(spot.markupdata, markupitem)]

----------------------------------------------------------------------------
(* Drawing (shadowdb.py tiles and sprites, MapSpot.draw) *)

\* One paint operation on the canvas: which layer of which cell painted it
\* (n: the position in the cell's item or object list, 0 otherwise), which part
\* of the layer it is, and the canvas position it is painted at.
Op(kind, part, index, n, x, y) ==
    [kind |-> kind, part |-> part, index |-> index, n |-> n, x |-> x, y |-> y]

\* the state a draw() call works on: the operations it painted, the face
\* caches, whether anything counted as drawn, and ok = no exception so far
DrawState(fc, gc) ==
    [ops |-> <<>>, faces |-> fc, gencalls |-> gc, drawn |-> FALSE, ok |-> TRUE]

\* a key that leaves the wall origin out
FaceKeyNoOrigin(wallorigin, ceildepth, floordepth) ==
    ceildepth * (2^10) + floordepth

\* walltile.prepare_size: key = (wallorigin<<20)+(spot.ceildepth<<10)+spot.floordepth
FaceKey(wallorigin, ceildepth, floordepth) ==
    wallorigin * (2^20) + ceildepth * (2^10) + floordepth

\* walltile.prepare_size: the wall origin the call works with
WallOrigin(spot, direction) ==
    IF direction = NoDirection THEN spot.floordepth
    ELSE spot.wallorigins[direction + 1]

\* walltile.prepare_size: generates the faces of the key on its first use;
\* a stored entry is the crop rectangle its faces were generated from
prepare_size(st, tile, spot, direction) ==
    LET wallorigin == WallOrigin(spot, direction)
        key == FaceKey(wallorigin, spot.ceildepth, spot.floordepth)
        wallimgtop == wallorigin - tile.h
        walltop == Max2(wallimgtop, spot.ceildepth)
        croptop == Max2(spot.ceildepth - wallimgtop, 0)
        cropimage == [top |-> croptop, bottom |-> spot.floordepth - wallimgtop,
                      wallorigin |-> wallorigin, ceildepth |-> spot.ceildepth,
                      floordepth |-> spot.floordepth]
        cache == st.faces[tile.name]
        hit == key \in DOMAIN cache
    IN [key |-> key,
        walltop |-> walltop,
        faces |-> IF hit THEN st.faces
                  ELSE [st.faces EXCEPT ![tile.name] = DictPut(cache, key, cropimage)],
        gencalls |-> IF hit THEN st.gencalls
                     ELSE Append(st.gencalls,
                                 [tile |-> tile.name, key |-> key,
                                  wallorigin |-> wallorigin,
                                  ceildepth |-> spot.ceildepth,
                                  floordepth |-> spot.floordepth])]

\* walltile.draw: the face (front, or back when the cell is solid) and the
\* top line of the wall
WallKind(direction) == IF direction = NORTH THEN "northwall" ELSE "westwall"

walltile_draw(st, tile, direction, spot) ==
    LET p == prepare_size(st, tile, spot, direction)
        walloffx == IF direction = NORTH THEN 0 ELSE -64
        lineoffx == IF direction = NORTH THEN 0 ELSE -64
        lineoffy == IF direction = NORTH THEN 0 ELSE 31
    IN [st EXCEPT
          !.faces = p.faces,
          !.gencalls = p.gencalls,
          !.ops = st.ops \o
             <<Op(WallKind(direction), "face", spot.index, 0,
                  spot.isox + walloffx, spot.isoy + p.walltop),
               Op(WallKind(direction), "line", spot.index, 0,
                  spot.isox + lineoffx, spot.isoy + lineoffy + p.walltop)>>]

\* thintile.draw
thintile_draw(st, tile, spot) ==
    LET p == prepare_size(st, tile, spot, NoDirection)
    IN [st EXCEPT
          !.faces = p.faces,
          !.gencalls = p.gencalls,
          !.ops = Append(st.ops,
                         Op("door", "face", spot.index, 0,
                            spot.isox - 32, spot.isoy + 16 + p.walltop))]

\* floortile.draw
floortile_draw(st, tile, spot) ==
    [st EXCEPT !.ops = Append(st.ops,
        Op("floor", "tile", spot.index, 0,
           spot.isox - 64, spot.isoy + spot.floordepth))]

\* the declared height of the sprite, not clamped to the room
SpriteHeightUnclamped(tile, spot) == tile.height

\* sprite.draw: the height the sprite is painted at above the floor
SpriteHeight(tile, spot) ==
    Min2(tile.height, (spot.floordepth - spot.ceildepth) - tile.h)

\* sprite.draw: the canvas row of the top edge of the sprite image
SpriteTop(tile, objdata, spot) ==
    LET subisoy == (objdata.subx + objdata.suby) \div 2
    IN IF tile.height < 0
       THEN spot.isoy + spot.ceildepth + subisoy
       ELSE spot.isoy + spot.floordepth - SpriteHeight(tile, spot) + subisoy - tile.h

\* sprite.draw: the guide lines and the doubled float image when the sprite
\* has one, then the sprite image
sprite_draw(st, tile, objdata, spot, kind, n) ==
    LET subisox == objdata.subx - objdata.suby
        floatw == 2 * 64
        floath == 2 * 64
        floatops ==
            IF tile.float
            THEN <<Op(kind, "guide", spot.index, n, spot.isox - subisox, spot.isoy),
                   Op(kind, "guide", spot.index, n, spot.isox + 1 - subisox, spot.isoy),
                   Op(kind, "float", spot.index, n,
                      spot.isox - (floatw \div 2) - subisox, spot.isoy - floath)>>
            ELSE <<>>
    IN [st EXCEPT !.ops = st.ops \o floatops \o
          <<Op(kind, "image", spot.index, n,
               spot.isox - (tile.w \div 2) - subisox,
               SpriteTop(tile, objdata, spot))>>]

\* a call of tile.draw(...): an emptytile and None have no draw method
\* (AttributeError)
HasDraw(tile) == tile.kind \in {"walltile", "thintile", "floortile", "sprite"}

Raise(st) == [st EXCEPT !.ok = FALSE]

\* a wall step that counts the cell as drawn whether it has a wall or not
DrawWallCountsEmpty(st, spot, direction) ==
    IF ~st.ok THEN st
    ELSE IF spot.wall[direction + 1].kind = "walltile"
         THEN [walltile_draw(st, spot.wall[direction + 1], direction, spot)
                 EXCEPT !.drawn = TRUE]
         ELSE [st EXCEPT !.drawn = TRUE]

\* MapSpot.draw, "# Walls": one direction
DrawWall(st, spot, direction) ==
    IF ~st.ok THEN st
    ELSE IF spot.wall[direction + 1].kind = "walltile"
         THEN [walltile_draw(st, spot.wall[direction + 1], direction, spot)
                 EXCEPT !.drawn = TRUE]
         ELSE st

\* MapSpot.draw, "# Floor"
DrawFloor(st, spot) ==
    IF ~st.ok \/ spot.solid THEN st
    ELSE IF HasDraw(spot.floor)
         THEN [floortile_draw(st, spot.floor, spot) EXCEPT !.drawn = TRUE]
         ELSE Raise(st)

\* a door painted without the test of the solid flag
DrawDoorOnSolid(st, spot) ==
    IF ~st.ok \/ spot.door = None THEN st
    ELSE [thintile_draw(st, spot.door, spot) EXCEPT !.drawn = TRUE]

\* MapSpot.draw, "# Door"
DrawDoor(st, spot) ==
    IF ~st.ok \/ spot.solid \/ spot.door = None THEN st
    ELSE [thintile_draw(st, spot.door, spot) EXCEPT !.drawn = TRUE]

\* MapSpot.draw, "# Items" and "# Objects": zip(tiles, tiledata) from
\* position n on
RECURSIVE DrawSprites(_, _, _, _, _, _)
DrawSprites(st, spot, tiles, tiledata, kind, n) ==
    IF ~st.ok \/ spot.solid \/ n > Min2(Len(tiles), Len(tiledata)) THEN st
    ELSE IF HasDraw(tiles[n])
         THEN DrawSprites(sprite_draw(st, tiles[n], tiledata[n], spot, kind, n),
                          spot, tiles, tiledata, kind, n + 1)
         ELSE Raise(st)

\* MapSpot.draw, "# Creatures"
DrawCreature(st, spot) ==
    IF ~st.ok \/ spot.solid \/ spot.creature = None THEN st
    ELSE sprite_draw(st, spot.creature, spot.creaturedata[1], spot, "creature", 0)

\* MapSpot.draw, "# Manual markup": markupitem.draw for every entry
DrawMarkup(st, spot) ==
    IF ~st.ok THEN st
    ELSE [st EXCEPT !.ops = st.ops \o
            [j \in 1 .. Len(spot.markupdata) |->
               Op("markup", spot.markupdata[j], spot.index, j, spot.isox, spot.isoy)]]

\* the layers with the floor painted before the walls
MapSpotDrawFloorFirst(st, spot) ==
    LET s1 == DrawFloor(st, spot)
        s2 == DrawWall(s1, spot, NORTH)
        s3 == DrawWall(s2, spot, WEST)
        s4 == DrawDoor(s3, spot)
        s5 == DrawSprites(s4, spot, spot.items, spot.itemdata, "item", 1)
        s6 == DrawSprites(s5, spot, spot.objects, spot.objectdata, "object", 1)
        s7 == DrawCreature(s6, spot)
    IN DrawMarkup(s7, spot)

\* MapSpot.draw: the layers in the order of the code; the result's drawn is
\* the value draw() returns (when ok)
MapSpotDraw(st, spot) ==
    LET s1 == DrawWall(st, spot, NORTH)
        s2 == DrawWall(s1, spot, WEST)
        s3 == DrawFloor(s2, spot)
        s4 == DrawDoor(s3, spot)
        s5 == DrawSprites(s4, spot, spot.items, spot.itemdata, "item", 1)
        s6 == DrawSprites(s5, spot, spot.objects, spot.objectdata, "object", 1)
        s7 == DrawCreature(s6, spot)
    IN DrawMarkup(s7, spot)

----------------------------------------------------------------------------
(* isomap: construction, generate(), save() *)

\* self.data[index]: a Python list of 1024 entries takes -1024 .. 1023, a
\* negative index counting from the end
InListRange(index) == index \in (0 - NumCells) .. (NumCells - 1)
ListIndex(index) == IF index < 0 THEN index + NumCells ELSE index

\* the keys of a dictionary in ascending order
RECURSIVE SortedKeys(_)
SortedKeys(S) ==
    IF S = {} THEN <<>>
    ELSE LET m == SetMin(S) IN <<m>> \o SortedKeys(S \ {m})

\* the keys of a lump's dictionary that address list entry t
KeysAt(lump, t) ==
    SortedKeys({k \in DOMAIN lump : InListRange(k) /\ ListIndex(k) = t})

RECURSIVE AddDoors(_, _, _)
AddDoors(spot, ks, lump) ==
    IF ks = <<>> THEN spot
    ELSE AddDoors(adddoor(spot, lump[Head(ks)]), Tail(ks), lump)

RECURSIVE AddItemLists(_, _, _)
AddItemLists(spot, ks, lump) ==
    IF ks = <<>> THEN spot
    ELSE AddItemLists(additems(spot, lump[Head(ks)]), Tail(ks), lump)

RECURSIVE AddObjectLists(_, _, _)
AddObjectLists(spot, ks, lump) ==
    IF ks = <<>> THEN spot
    ELSE AddObjectLists(addobjects(spot, lump[Head(ks)]), Tail(ks), lump)

RECURSIVE AddCreatures(_, _, _, _)
AddCreatures(spot, ks, lump, crtable) ==
    IF ks = <<>> THEN spot
    ELSE AddCreatures(addcreature(spot, lump[Head(ks)], crtable), Tail(ks), lump,
                      crtable)

\* for index, markupitem in catelogentry.markup: the entries of list entry t,
\* in list order
RECURSIVE AddMarkups(_, _, _)
AddMarkups(spot, markup, t) ==
    IF markup = <<>> THEN spot
    ELSE LET m == Head(markup)
         IN AddMarkups(IF InListRange(m[1]) /\ ListIndex(m[1]) = t
                       THEN addmarkup(spot, m[2]) ELSE spot,
                       Tail(markup), t)

\* the 9 layer values of cell i
LayerVals(m, i) == [l \in Layers |-> LayerAt(m, l, i)]

\* isomap.__init__: the list entries that get an entity attached
Attached(m, entry) ==
    {ListIndex(k) : k \in {j \in (DOMAIN m.doorlump) \cup (DOMAIN m.itemlump)
                                  \cup (DOMAIN m.objectlump)
                                  \cup (DOMAIN m.creaturelump)
                                  \cup {entry.markup[j2][1] : j2 \in 1 .. Len(entry.markup)}
                           : InListRange(j)}}

\* isomap.__init__: an index outside the list, a name or id missing from
\* the catalog raises (IndexError, KeyError)
InitRaises(m, entry, crtable) ==
    \/ \E k \in (DOMAIN m.doorlump) \cup (DOMAIN m.itemlump)
                \cup (DOMAIN m.objectlump) \cup (DOMAIN m.creaturelump)
                \cup {entry.markup[j][1] : j \in 1 .. Len(entry.markup)} :
          ~InListRange(k)
    \/ \E k \in DOMAIN m.doorlump : m.doorlump[k].name \notin DoorNames
    \/ \E k \in DOMAIN m.objectlump : \E j \in 1 .. Len(m.objectlump[k]) :
          m.objectlump[k][j].name \notin ObjectNames
    \/ \E k \in DOMAIN m.itemlump : \E j \in 1 .. Len(m.itemlump[k]) :
          m.itemlump[k][j].itemtype \notin 0 .. 255
    \/ \E k \in DOMAIN m.creaturelump :
          m.creaturelump[k].crtype \notin DOMAIN crtable

\* isomap.__init__: the MapSpot of list entry t with its entities attached
BuildSpot(m, entry, mxceil, crtable, t) ==
    LET s0 == MapSpot(t, LayerVals(m, t), mxceil, entry)
        s1 == AddDoors(s0, KeysAt(m.doorlump, t), m.doorlump)
        s2 == AddItemLists(s1, KeysAt(m.itemlump, t), m.itemlump)
        s3 == AddObjectLists(s2, KeysAt(m.objectlump, t), m.objectlump)
        s4 == AddCreatures(s3, KeysAt(m.creaturelump, t), m.creaturelump, crtable)
    IN AddMarkups(s4, entry.markup, t)

\* self.data[k] for k in 0 .. 1023: a spot without entities is the MapSpot
\* of its layer values
DataAt(k) ==
    IF k \in DOMAIN data THEN data[k]
    ELSE MapSpot(k, LayerVals(mapdata, k), maxceil, catelogentry)

\* isomap.__init__
IsomapInit ==
    /\ pc = "loaded"
    /\ LET mxceil == SetMax(LayerValues(mapdata, CEILINGHEIGHT))
           mnfloor == SetMin(LayerValues(mapdata, FLOORHEIGHT))
           crtable == loadcreatures(mapdata.actorlump)
           \* an exception of the door, item and object loops comes before
           \* database.loadcreatures is called
           early == \/ \E k \in (DOMAIN mapdata.doorlump) \cup (DOMAIN mapdata.itemlump)
                                  \cup (DOMAIN mapdata.objectlump) : ~InListRange(k)
                    \/ \E k \in DOMAIN mapdata.doorlump :
                          mapdata.doorlump[k].name \notin DoorNames
                    \/ \E k \in DOMAIN mapdata.objectlump :
                          \E j \in 1 .. Len(mapdata.objectlump[k]) :
                             mapdata.objectlump[k][j].name \notin ObjectNames
       IN /\ maxceil' = mxceil
          /\ minfloor' = mnfloor
          /\ creatures' = IF early THEN creatures ELSE crtable
          /\ IF InitRaises(mapdata, catelogentry, crtable)
             THEN /\ pc' = "error"
                  /\ data' = data
             ELSE /\ pc' = "initialized"
                  /\ data' = [t \in Attached(mapdata, catelogentry) |->
                                BuildSpot(mapdata, catelogentry, mxceil, crtable, t)]
    /\ UNCHANGED <<mapdata, catelogentry, faces, gencalls, mappicture,
                   minx, maxx, miny, maxy, pos, lastspot, lastret, passes,
                   calls, archivevars>>

\* generate(): the canvas is 32*64*2 wide
CanvasWidth == 32 * 64 * 2
\* generate(): and 32*64+maxceil-minfloor high
CanvasHeight == 32 * 64 + maxceil - minfloor

\* a generate() that paints on the canvas of the previous call
GenerateStartNoReset ==
    /\ pc \in {"initialized", "generated", "saved"}
    /\ passes > 0
    /\ passes' = passes - 1
    /\ minx' = CanvasWidth
    /\ maxx' = 0
    /\ miny' = CanvasHeight
    /\ maxy' = 0
    /\ pos' = 0
    /\ pc' = "generate"
    /\ UNCHANGED <<mapdata, catelogentry, maxceil, minfloor, data, creatures,
                   faces, gencalls, mappicture, lastspot, lastret, calls,
                   archivevars>>

\* generate(), up to the loop: a fresh canvas and the initial crop box
GenerateStart ==
    /\ pc \in {"initialized", "generated", "saved"}
    /\ passes > 0
    /\ passes' = passes - 1
    /\ mappicture' = <<>>
    /\ minx' = CanvasWidth
    /\ maxx' = 0
    /\ miny' = CanvasHeight
    /\ maxy' = 0
    /\ pos' = 0
    /\ pc' = "generate"
    /\ UNCHANGED <<mapdata, catelogentry, maxceil, minfloor, data, creatures,
                   faces, gencalls, lastspot, lastret, calls, archivevars>>

\* the entries taken from the end of the list
SpotOrderReversed(k) == NumCells - 1 - k

\* generate(): "for spot in self.data" takes the entries in list order
SpotOrder(k) == k

\* a crop box without the margin below the cell
BoxAfterNoMargin(box, spot) ==
    [minx |-> Min2(box.minx, spot.isox - 64),
     maxx |-> Max2(box.maxx, spot.isox + 64),
     miny |-> Min2(box.miny, spot.isoy - 64),
     maxy |-> Max2(box.maxy, spot.isoy + maxceil - minfloor)]

\* generate(): the crop box after a spot that drew
BoxAfter(box, spot) ==
    [minx |-> Min2(box.minx, spot.isox - 64),
     maxx |-> Max2(box.maxx, spot.isox + 64),
     miny |-> Min2(box.miny, spot.isoy - 64),
     maxy |-> Max2(box.maxy, spot.isoy + maxceil - minfloor + 64)]

Box == [minx |-> minx, maxx |-> maxx, miny |-> miny, maxy |-> maxy]

\* generate(): one iteration of the loop; an exception in draw() ends the run
DrawSpot ==
    /\ pc = "generate"
    /\ pos < NumCells
    /\ LET spot == DataAt(SpotOrder(pos))
           r == MapSpotDraw(DrawState(faces, gencalls), spot)
           box == IF r.ok /\ r.drawn THEN BoxAfter(Box, spot) ELSE Box
       IN /\ mappicture' = mappicture \o r.ops
          /\ faces' = r.faces
          /\ gencalls' = r.gencalls
          /\ lastspot' = spot.index
          /\ lastret' = IF ~r.ok THEN "raised"
                        ELSE IF r.drawn THEN "True" ELSE "False"
          /\ minx' = box.minx
          /\ maxx' = box.maxx
          /\ miny' = box.miny
          /\ maxy' = box.maxy
          /\ pos' = pos + 1
          /\ pc' = IF ~r.ok THEN "error"
                   ELSE IF pos + 1 = NumCells THEN "generated" ELSE "generate"
          /\ calls' = IF r.ok /\ pos + 1 = NumCells
                      THEN Append(calls, [picture |-> mappicture \o r.ops,
                                          box |-> box])
                      ELSE calls
    /\ UNCHANGED <<mapdata, catelogentry, maxceil, minfloor, data, creatures,
                   passes, archivevars>>

\* save(): the crop box handed to crop()
Save ==
    /\ pc = "generated"
    /\ minx' = Max2(minx, 0)
    /\ miny' = Max2(miny, 0)
    /\ pc' = "saved"
    /\ UNCHANGED <<mapdata, catelogentry, maxceil, minfloor, data, creatures,
                   faces, gencalls, mappicture, maxx, maxy, pos, lastspot,
                   lastret, passes, calls, archivevars>>

Next == IsomapInit \/ GenerateStart \/ DrawSpot \/ Save

----------------------------------------------------------------------------
(* The levels the runs start from *)

\* the 9 layer values of a cell (ceiling id and the auxiliary layer are not
\* read by the compositing engine)
LV(floor, floorheight, ceilheight, nwall, nwallheight, wwall, wwallheight) ==
    [l \in Layers |->
        CASE l = FLOOR -> floor
          [] l = FLOORHEIGHT -> floorheight
          [] l = CEILINGHEIGHT -> ceilheight
          [] l = NORTHWALL -> nwall
          [] l = NORTHWALLHEIGHT -> nwallheight
          [] l = WESTWALL -> wwall
          [] l = WESTWALLHEIGHT -> wwallheight
          [] OTHER -> 0]

\* a cell with the empty floor sentinel and no walls
EmptyCell(floorheight, ceilheight) == LV(1, floorheight, ceilheight, 0, 0, 0, 0)

\* the cells that fill a level around the cells under study
Fills == {EmptyCell(0, 0), EmptyCell(16, 80)}

Level(cells, fill, doorlump, itemlump, objectlump, creaturelump, actorlump) ==
    [cells |-> cells, fill |-> fill, doorlump |-> doorlump, itemlump |-> itemlump,
     objectlump |-> objectlump, creaturelump |-> creaturelump,
     actorlump |-> actorlump]

NoMods == [l \in Layers |-> EmptyDict]

Mapentry(markup, changes, replacements) ==
    [markup |-> markup, changes |-> changes, replacements |-> replacements]

One(k, v) == DictPut(EmptyDict, k, v)

\* sample cells: the four corners, the cells next to the top corner, an
\* inner cell
Positions == {0, 1, 31, 32, 33, 500, 992, 1023}

\* a level of empty cells only, without entities and markup
EmptyLevels ==
    {[mapdata |-> Level(EmptyDict, f, EmptyDict, EmptyDict, EmptyDict, EmptyDict, <<>>),
      catelogentry |-> Mapentry(<<>>, NoMods, NoMods)] : f \in Fills}

\* a level of empty cells only, with entities placed on (solid) cells
EmptyLevelsWithEntities ==
    {[mapdata |-> Level(EmptyDict, f,
                        One(p, Door("door1", 0, SpotX(p), SpotY(p))),
                        One(p, <<Item(1, SpotX(p), SpotY(p), 29, 40)>>),
                        One(p, <<ShObject(1, "barrel", SpotX(p), SpotY(p), 10, 20)>>),
                        One(p, Creature(7, SpotX(p), SpotY(p))),
                        <<Actor(7, "cleric", 0)>>),
      catelogentry |-> Mapentry(<<>>, NoMods, NoMods)] :
        f \in Fills, p \in {33}}

\* a level of empty cells only, with a manual markup entry on one cell
EmptyLevelsWithMarkup ==
    {[mapdata |-> Level(EmptyDict, f, EmptyDict, EmptyDict, EmptyDict, EmptyDict, <<>>),
      catelogentry |-> Mapentry(<<<<p, "label">>>>, NoMods, NoMods)] :
        f \in Fills, p \in {0, 500}}

\* a level of empty cells only, one of them given a floor by an override of
\* the catalog entry
EmptyLevelsWithOverride ==
    {[mapdata |-> Level(EmptyDict, f, EmptyDict, EmptyDict, EmptyDict, EmptyDict, <<>>),
      catelogentry |-> Mapentry(<<>>, [NoMods EXCEPT ![FLOOR] = One(p, 2)], NoMods)] :
        f \in Fills, p \in {500}}

\* a level whose only non-empty cell is a solid cell with a north wall
NorthWallLevels ==
    {[mapdata |-> Level(One(p, LV(1, 0, 64, w, 0, 0, 0)), f,
                        EmptyDict, EmptyDict, EmptyDict, EmptyDict, <<>>),
      catelogentry |-> Mapentry(<<>>, NoMods, NoMods)] :
        f \in Fills, p \in Positions, w \in 1 .. Len(WallLumps)}

\* a level with one open cell that carries every kind of entity
OpenCellLevels ==
    {[mapdata |-> Level(One(p, LV(2, 0, 64, 1, 0, 2, 0)), f,
                        One(p, Door("door1", 1, SpotX(p), SpotY(p))),
                        One(p, <<Item(1, SpotX(p), SpotY(p), 29, 40),
                                 Item(2, SpotX(p), SpotY(p), 1, 10)>>),
                        One(p, <<ShObject(1, "chain", SpotX(p), SpotY(p), 10, 20)>>),
                        One(p, Creature(7, SpotX(p), SpotY(p))),
                        <<Actor(7, "cleric", 8)>>),
      catelogentry |-> Mapentry(<<<<p, "label">>>>, NoMods, NoMods)] :
        f \in Fills, p \in {33, 1023}}

TileNames == {WallLumps[j].name : j \in 1 .. Len(WallLumps)} \cup DoorNames

\* the state before isomap(...) is constructed for level lv, in a run that
\* calls generate() count times
InitWithPasses(lv, count) ==
    /\ pc = "loaded"
    /\ mapdata = lv.mapdata
    /\ catelogentry = lv.catelogentry
    /\ maxceil = 0
    /\ minfloor = 0
    /\ data = EmptyDict
    /\ creatures = EmptyDict
    /\ faces = [n \in TileNames |-> EmptyDict]
    /\ gencalls = <<>>
    /\ mappicture = <<>>
    /\ minx = 0
    /\ maxx = 0
    /\ miny = 0
    /\ maxy = 0
    /\ pos = 0
    /\ lastspot = -1
    /\ lastret = "none"
    /\ passes = count
    /\ calls = <<>>
    /\ ArchivesUnopened

\* the run of the main program: one generate() per level
InitWith(lv) == InitWithPasses(lv, 1)

Init ==
    \E lv \in EmptyLevels \cup EmptyLevelsWithEntities \cup EmptyLevelsWithMarkup
               \cup EmptyLevelsWithOverride \cup NorthWallLevels \cup OpenCellLevels :
        InitWith(lv)

Spec == Init /\ [][Next]_vars

\* a level with one open cell whose floor lies below, at or above the
\* ceilings of the level
HeightLevels ==
    {[mapdata |-> Level(One(p, LV(2, fh, 64, 0, 0, 0, 0)), f,
                        EmptyDict, EmptyDict, EmptyDict, EmptyDict, <<>>),
      catelogentry |-> Mapentry(<<>>, NoMods, NoMods)] :
        f \in Fills, p \in {0, 1023}, fh \in {0, 145}}

\* the runs that call generate() twice
InitRedraw ==
    \E lv \in HeightLevels \cup {l \in OpenCellLevels : l.mapdata.fill = EmptyCell(16, 80)} :
        InitWithPasses(lv, 2)

SpecRedraw == InitRedraw /\ [][Next]_vars

\* the runs over a level of empty cells and over a level with one open cell
InitGrid ==
    \E lv \in EmptyLevels \cup {l \in OpenCellLevels : l.mapdata.fill = EmptyCell(0, 0)} :
        InitWith(lv)

SpecGrid == InitGrid /\ [][Next]_vars

\* bound of the number of levels of the catalog
MaxLevels == 2

\* ActorLump.load: the actor templates of the records (actor id, sprite
\* name, height flag) of the lump
ActorLump(records) ==
    [j \in 1 .. Len(records) |-> Actor(records[j][1], records[j][2], records[j][3])]

\* the actor lumps of the levels of the catalog: none, a floating one, a
\* ceiling-mounted and a ground one, two records with one actor id
ActorRecords ==
    {<<>>, <<<<7, "cleric", 8>>>>, <<<<7, "fish1", 17>>, <<9, "gieser", 0>>>>,
     <<<<8, "cleric", 3>>, <<8, "gieser", 17>>>>}

\* the loop of __main__ over catelog.maplist: the mapper of the next level is
\* constructed on the same database
NextLevel ==
    /\ pc = "saved"
    /\ passes > 0
    /\ \E r \in ActorRecords :
         mapdata' = Level(EmptyDict, EmptyCell(0, 0), EmptyDict, EmptyDict, EmptyDict,
                          EmptyDict, ActorLump(r))
    /\ pc' = "loaded"
    /\ UNCHANGED <<catelogentry, maxceil, minfloor, data, creatures, faces,
                   gencalls, mappicture, minx, maxx, miny, maxy, pos, lastspot,
                   lastret, passes, calls, archivevars>>

\* the first level of a catalog of MaxLevels levels
InitLevels ==
    /\ pc = "loaded"
    /\ \E r \in ActorRecords :
         mapdata = Level(EmptyDict, EmptyCell(0, 0), EmptyDict, EmptyDict, EmptyDict,
                         EmptyDict, ActorLump(r))
    /\ catelogentry = Mapentry(<<>>, NoMods, NoMods)
    /\ maxceil = 0
    /\ minfloor = 0
    /\ data = EmptyDict
    /\ creatures = EmptyDict
    /\ faces = [n \in TileNames |-> EmptyDict]
    /\ gencalls = <<>>
    /\ mappicture = <<>>
    /\ minx = 0
    /\ maxx = 0
    /\ miny = 0
    /\ maxy = 0
    /\ pos = 0
    /\ lastspot = -1
    /\ lastret = "none"
    /\ passes = MaxLevels
    /\ calls = <<>>
    /\ ArchivesUnopened

SpecLevels == InitLevels /\ [][Next \/ NextLevel]_vars

----------------------------------------------------------------------------
(* One MapSpot: created, populated by the add...() calls of isomap.__init__, *)
(* then drawn *)

\* bounds of the lists attached to the spot
MaxItems == 2
MaxMarkup == 1

\* the sub-tile offsets of the attached items and objects
SubXs == {10, 40}

\* the item records of one cell: the j-th record of the lump has uniqid j
ItemTypeOf(j) == IF j % 2 = 1 THEN 29 ELSE 1
ItemList(i, subxs) ==
    [j \in 1 .. Len(subxs) |-> Item(j, SpotX(i), SpotY(i), ItemTypeOf(j), subxs[j])]

\* the n object records of one cell, stored from right to left
ObjectNameOf(j) == IF j % 2 = 1 THEN "chain" ELSE "barrel"
ObjectList(i, n) ==
    [j \in 1 .. n |->
       ShObject(j, ObjectNameOf(j), SpotX(i), SpotY(i), 64 - 16 * j, 20)]

\* the actor templates of the level: floating, ceiling-mounted, ground
SpotActors == <<Actor(7, "cleric", 8), Actor(8, "fish1", 17), Actor(9, "gieser", 0)>>

\* isomap.__init__, the adddoor loop: one entry
AddDoor ==
    /\ pc = "populate"
    /\ \E i \in DOMAIN data, orientation \in {0, 1} :
          /\ data[i].door = None
          /\ data' = [data EXCEPT ![i] =
                        adddoor(@, Door("door1", orientation, SpotX(i), SpotY(i)))]
    /\ UNCHANGED <<pc, mapdata, catelogentry, maxceil, minfloor, creatures, faces,
                   gencalls, mappicture, minx, maxx, miny, maxy, pos, lastspot,
                   lastret, passes, calls, archivevars>>

\* isomap.__init__, the additems loop: one entry
AddItems ==
    /\ pc = "populate"
    /\ \E i \in DOMAIN data, n \in 1 .. MaxItems :
         \E subxs \in [1 .. n -> SubXs] :
          /\ data[i].itemdata = <<>>
          /\ data' = [data EXCEPT ![i] = additems(@, ItemList(i, subxs))]
    /\ UNCHANGED <<pc, mapdata, catelogentry, maxceil, minfloor, creatures, faces,
                   gencalls, mappicture, minx, maxx, miny, maxy, pos, lastspot,
                   lastret, passes, calls, archivevars>>

\* isomap.__init__, the addobjects loop: one entry
AddObjects ==
    /\ pc = "populate"
    /\ \E i \in DOMAIN data, n \in 1 .. MaxItems :
          /\ data[i].objectdata = <<>>
          /\ data' = [data EXCEPT ![i] = addobjects(@, ObjectList(i, n))]
    /\ UNCHANGED <<pc, mapdata, catelogentry, maxceil, minfloor, creatures, faces,
                   gencalls, mappicture, minx, maxx, miny, maxy, pos, lastspot,
                   lastret, passes, calls, archivevars>>

\* isomap.__init__, the addcreature loop: one entry
AddCreature ==
    /\ pc = "populate"
    /\ \E i \in DOMAIN data, crtype \in DOMAIN creatures :
          /\ data[i].creature = None
          /\ data' = [data EXCEPT ![i] =
                        addcreature(@, Creature(crtype, SpotX(i), SpotY(i)), creatures)]
    /\ UNCHANGED <<pc, mapdata, catelogentry, maxceil, minfloor, creatures, faces,
                   gencalls, mappicture, minx, maxx, miny, maxy, pos, lastspot,
                   lastret, passes, calls, archivevars>>

\* isomap.__init__, the addmarkup loop: one entry
AddMarkup ==
    /\ pc = "populate"
    /\ \E i \in DOMAIN data :
          /\ Len(data[i].markupdata) < MaxMarkup
          /\ data' = [data EXCEPT ![i] = addmarkup(@, "label")]
    /\ UNCHANGED <<pc, mapdata, catelogentry, maxceil, minfloor, creatures, faces,
                   gencalls, mappicture, minx, maxx, miny, maxy, pos, lastspot,
                   lastret, passes, calls, archivevars>>

\* spot.draw(self.mappicture, self.pen) on the populated spot
Draw ==
    /\ pc = "populate"
    /\ \E i \in DOMAIN data :
         LET r == MapSpotDraw(DrawState(faces, gencalls), data[i])
         IN /\ mappicture' = mappicture \o r.ops
            /\ faces' = r.faces
            /\ gencalls' = r.gencalls
            /\ lastspot' = i
            /\ lastret' = IF ~r.ok THEN "raised"
                          ELSE IF r.drawn THEN "True" ELSE "False"
            /\ pc' = IF r.ok THEN "drawn" ELSE "error"
    /\ UNCHANGED <<mapdata, catelogentry, maxceil, minfloor, data, creatures,
                   minx, maxx, miny, maxy, pos, passes, calls, archivevars>>

NextSpot == AddDoor \/ AddItems \/ AddObjects \/ AddCreature \/ AddMarkup \/ Draw

\* the cells under study: the floor (None, the empty sentinel, a floor
\* tile), the walls, and the heights of the cell
SpotCells ==
    {LV(fl, h[1], h[2], w[1], h[1], w[2], h[1]) :
        fl \in {0, 1, 2},
        w \in {<<0, 0>>, <<1, 0>>, <<0, 2>>, <<1, 2>>},
        h \in {<<0, 64>>, <<16, 64>>}}

\* a catalog entry with overrides of the floor layer: cell i is changed to
\* the empty sentinel (1), and every floor id 1 is replaced by floor 2
FloorMods(i) ==
    Mapentry(<<>>, [NoMods EXCEPT ![FLOOR] = One(i, 1)],
             [NoMods EXCEPT ![FLOOR] = One(1, 2)])

\* isomap.__init__ after the MapSpot list is built (and the level's creature
\* table loaded): the spot of cell i carries no entity yet
InitSpot ==
    \E i \in {33}, cell \in SpotCells, f \in {EmptyCell(0, 0)},
       entry \in {Mapentry(<<>>, NoMods, NoMods), FloorMods(33)} :
      LET m == Level(One(i, cell), f, EmptyDict, EmptyDict, EmptyDict, EmptyDict,
                     SpotActors)
          mxceil == SetMax(LayerValues(m, CEILINGHEIGHT))
      IN /\ pc = "populate"
         /\ mapdata = m
         /\ catelogentry = entry
         /\ maxceil = mxceil
         /\ minfloor = SetMin(LayerValues(m, FLOORHEIGHT))
         /\ data = One(i, MapSpot(i, cell, mxceil, entry))
         /\ creatures = loadcreatures(SpotActors)
         /\ faces = [n \in TileNames |-> EmptyDict]
         /\ gencalls = <<>>
         /\ mappicture = <<>>
         /\ minx = 0
         /\ maxx = 0
         /\ miny = 0
         /\ maxy = 0
         /\ pos = 0
         /\ lastspot = -1
         /\ lastret = "none"
         /\ passes = 0
         /\ calls = <<>>
         /\ ArchivesUnopened

SpecSpot == InitSpot /\ [][NextSpot]_vars

\* isomap.__init__, the additems loop: one entry whose single record has
\* item type 0, the id of the sentinel items[0]
AddSentinelItem ==
    /\ pc = "populate"
    /\ \E i \in DOMAIN data, subx \in SubXs :
          /\ Len(data[i].itemdata) < MaxItems
          /\ data' = [data EXCEPT
                        ![i] = additems(@, <<Item(0, SpotX(i), SpotY(i), 0, subx)>>)]
    /\ UNCHANGED <<pc, mapdata, catelogentry, maxceil, minfloor, creatures, faces,
                   gencalls, mappicture, minx, maxx, miny, maxy, pos, lastspot,
                   lastret, passes, calls, archivevars>>

SpecSpotSentinel == InitSpot /\ [][NextSpot \/ AddSentinelItem]_vars

----------------------------------------------------------------------------
(* The face cache of the wall tiles: prepare_size() called on a tile for     *)
(* spots of varying depths                                                   *)

\* bound of the number of calls
MaxCalls == 3

\* the heights of the spots, under a maximum ceiling height of 80: floor and
\* ceiling depths of 64 or -16 and 0 or 16, wall origins of 0 or 64
CacheFloorHeights == {16, 96}
CacheCeilHeights == {80, 64}
CacheMaxCeil == SetMax(CacheCeilHeights)
CacheWallHeights == {80, 16}

\* tile.prepare_size(spot, direction) as walltile.draw calls it
PrepareSize ==
    /\ pc = "cache"
    /\ Len(calls) < MaxCalls
    /\ \E id \in 1 .. Len(WallLumps), direction \in {NORTH, WEST},
          fh \in CacheFloorHeights, ch \in CacheCeilHeights, wh \in CacheWallHeights :
         LET tile == walls(id)
             spot == MapSpot(0, LV(2, fh, ch, id, IF direction = NORTH THEN wh ELSE 80,
                                   id, IF direction = WEST THEN wh ELSE 80),
                             CacheMaxCeil, Mapentry(<<>>, NoMods, NoMods))
             p == prepare_size(DrawState(faces, gencalls), tile, spot, direction)
         IN /\ faces' = p.faces
            /\ gencalls' = p.gencalls
            /\ calls' = Append(calls,
                   [tile |-> tile.name,
                    wallorigin |-> WallOrigin(spot, direction),
                    ceildepth |-> spot.ceildepth,
                    floordepth |-> spot.floordepth,
                    key |-> p.key,
                    generated |-> Len(p.gencalls) > Len(gencalls),
                    face |-> p.faces[tile.name][p.key]])
    /\ UNCHANGED <<pc, mapdata, catelogentry, maxceil, minfloor, data, creatures,
                   mappicture, minx, maxx, miny, maxy, pos, lastspot, lastret,
                   passes, archivevars>>

NextCache == PrepareSize

\* a catalog whose tiles have generated no face yet
InitCache ==
    /\ pc = "cache"
    /\ mapdata = Level(EmptyDict, EmptyCell(0, 0), EmptyDict, EmptyDict, EmptyDict,
                       EmptyDict, <<>>)
    /\ catelogentry = Mapentry(<<>>, NoMods, NoMods)
    /\ maxceil = CacheMaxCeil
    /\ minfloor = 0
    /\ data = EmptyDict
    /\ creatures = EmptyDict
    /\ faces = [n \in TileNames |-> EmptyDict]
    /\ gencalls = <<>>
    /\ mappicture = <<>>
    /\ minx = 0
    /\ maxx = 0
    /\ miny = 0
    /\ maxy = 0
    /\ pos = 0
    /\ lastspot = -1
    /\ lastret = "none"
    /\ passes = 0
    /\ calls = <<>>
    /\ ArchivesUnopened

SpecCache == InitCache /\ [][NextCache]_vars

\* bound of the number of calls with extreme depths
MaxKeyCalls == 2

\* prepare_size() on the first wall tile, called for a spot of a level whose
\* maximum ceiling height is 0 or 255 and whose 8-bit heights are 0, 1 or
\* 255: the depths are 0, -1, -255 or 255, 254, 0.  The tile keeps its faces
\* from level to level.
PrepareSizeAny ==
    /\ pc = "cache"
    /\ Len(calls) < MaxKeyCalls
    /\ \E direction \in {NORTH, WEST}, mc \in {0, 255},
          fh \in {0, 1, 255}, ch \in {0, 1, 255}, wh \in {0, 1, 255} :
         LET tile == walls(1)
             spot == MapSpot(0, LV(2, fh, ch, 1, wh, 1, wh), mc,
                             Mapentry(<<>>, NoMods, NoMods))
             p == prepare_size(DrawState(faces, gencalls), tile, spot, direction)
         IN /\ maxceil' = mc
            /\ faces' = p.faces
            /\ gencalls' = p.gencalls
            /\ calls' = Append(calls,
                   [tile |-> tile.name,
                    wallorigin |-> WallOrigin(spot, direction),
                    ceildepth |-> spot.ceildepth,
                    floordepth |-> spot.floordepth,
                    key |-> p.key,
                    generated |-> Len(p.gencalls) > Len(gencalls),
                    face |-> p.faces[tile.name][p.key]])
    /\ UNCHANGED <<pc, mapdata, catelogentry, minfloor, data, creatures,
                   mappicture, minx, maxx, miny, maxy, pos, lastspot, lastret,
                   passes, archivevars>>

SpecCacheAny == InitCache /\ [][PrepareSizeAny]_vars

----------------------------------------------------------------------------
(* The item lump of a level loaded from its records, then attached to the   *)
(* spots                                                                     *)

\* ItemLump.load: the records filed under the map index of their cell, in
\* the order of the lump
RECURSIVE ItemLumpData(_)
ItemLumpData(records) ==
    IF records = <<>> THEN EmptyDict
    ELSE LET n == Len(records)
             d == ItemLumpData(SubSeq(records, 1, n - 1))
             tempitem == records[n]
             index == mapindex(tempitem.x, tempitem.y)
         IN IF index \notin DOMAIN d
            THEN DictPut(d, index, <<tempitem>>)
            ELSE DictPut(d, index, Append(d[index], tempitem))

\* ItemLump.load on a lump of one or two records of one cell
ItemLumpLoad ==
    /\ pc = "unloaded"
    /\ \E x \in 0 .. (GridSize - 1), y \in 0 .. (GridSize - 1), n \in 1 .. 2 :
         mapdata' = [mapdata EXCEPT !.itemlump =
                       ItemLumpData([j \in 1 .. n |->
                                       Item(j, x, y, ItemTypeOf(j), 10 * j)])]
    /\ pc' = "loaded"
    /\ UNCHANGED <<catelogentry, maxceil, minfloor, data, creatures, faces,
                   gencalls, mappicture, minx, maxx, miny, maxy, pos, lastspot,
                   lastret, passes, calls, archivevars>>

NextIndex == ItemLumpLoad \/ IsomapInit

\* a level of empty cells whose item lump is not loaded yet
InitIndex ==
    /\ pc = "unloaded"
    /\ mapdata = Level(EmptyDict, EmptyCell(0, 0), EmptyDict, EmptyDict, EmptyDict,
                       EmptyDict, <<>>)
    /\ catelogentry = Mapentry(<<>>, NoMods, NoMods)
    /\ maxceil = 0
    /\ minfloor = 0
    /\ data = EmptyDict
    /\ creatures = EmptyDict
    /\ faces = [n \in TileNames |-> EmptyDict]
    /\ gencalls = <<>>
    /\ mappicture = <<>>
    /\ minx = 0
    /\ maxx = 0
    /\ miny = 0
    /\ maxy = 0
    /\ pos = 0
    /\ lastspot = -1
    /\ lastret = "none"
    /\ passes = 0
    /\ calls = <<>>
    /\ ArchivesUnopened

SpecIndex == InitIndex /\ [][NextIndex]_vars

\* ItemLump.load on a lump of one or two records whose x and y are any
\* values of the signed record fields near the grid, inside it or not
ItemLumpLoadAny ==
    /\ pc = "unloaded"
    /\ \E x \in (0 - 1) .. GridSize, y \in (0 - 1) .. GridSize, n \in 1 .. 2 :
         mapdata' = [mapdata EXCEPT !.itemlump =
                       ItemLumpData([j \in 1 .. n |->
                                       Item(j, x, y, ItemTypeOf(j), 10 * j)])]
    /\ pc' = "loaded"
    /\ UNCHANGED <<catelogentry, maxceil, minfloor, data, creatures, faces,
                   gencalls, mappicture, minx, maxx, miny, maxy, pos, lastspot,
                   lastret, passes, calls, archivevars>>

SpecIndexAny == InitIndex /\ [][ItemLumpLoadAny \/ IsomapInit]_vars

----------------------------------------------------------------------------
(* The dat archive (shadowdat.py): directory scan, loadall(), close()       *)

\* str.lower() on the names that occur in the directories
Lower(name) ==
    CASE name = "STARTWALLS" -> "startwalls"
      [] name = "Door1" -> "door1"
      [] name = "RUINSA.DOR" -> "ruinsa.dor"
      [] OTHER -> name

\* what loadname returns for a directory entry without a name (nameoffs = 0)
NoName == "None"

\* DatFile.loadname: the name at nameoffs, lower-cased
loadname(entry) == IF entry.nameoffs > 0 THEN Lower(entry.name) ELSE NoName

\* dat Lump.__init__: the lump of a directory entry, not loaded yet
DatLump(entry, block, group) ==
    [name |-> entry.name, nameoffs |-> entry.nameoffs, size |-> entry.size,
     flags |-> entry.flags, bytes |-> entry.bytes, block |-> block, group |-> group,
     class |-> "Lump", data |-> "unset", logged |-> FALSE]

\* DatFile.__init__: the scan of the first n directory entries; the sized
\* lumps are filed under the current block and group.  StartNames, EndNames
\* and StripStart are 'start' in tempname, 'end' in tempname and
\* tempname.replace('start', '') on the names that occur
RECURSIVE DatScan(_, _)
DatScan(dir, n) ==
    IF n = 0
    THEN [block |-> "General", group |-> "Unnamed", inmonsters |-> FALSE,
          lumps |-> <<>>]
    ELSE LET StartNames == {"startwalls", "startflats", "startsprites",
                            "startmonsters"}
             EndNames == {"endwalls", "endflats", "endsprites", "endmonsters"}
             StripStart(name) ==
                 CASE name = "startwalls" -> "walls"
                   [] name = "startflats" -> "flats"
                   [] name = "startsprites" -> "sprites"
                   [] name = "startmonsters" -> "monsters"
                   [] OTHER -> name
             st == DatScan(dir, n - 1)
             entry == dir[n]
             tempname == loadname(entry)
             marker == tempname # NoName /\ entry.size = 0
             isend == (tempname \in EndNames /\ ~st.inmonsters)
                        \/ tempname = "endmonsters"
             isstart == ~isend /\ ~st.inmonsters /\ tempname \in StartNames
             group == IF tempname = NoName THEN st.group
                      ELSE IF entry.size = 0 THEN "Unnamed" ELSE tempname
             block == IF ~marker THEN st.block
                      ELSE IF isend THEN "General"
                      ELSE IF isstart THEN StripStart(tempname)
                      ELSE IF tempname = "newcursors" THEN tempname
                      ELSE st.block
             inmonsters == IF ~marker THEN st.inmonsters
                           ELSE IF isend THEN FALSE
                           ELSE IF isstart /\ tempname = "startmonsters" THEN TRUE
                           ELSE st.inmonsters
         IN [block |-> block, group |-> group, inmonsters |-> inmonsters,
             lumps |-> IF entry.size > 0
                       THEN Append(st.lumps, DatLump(entry, block, group))
                       ELSE st.lumps]

\* DatFile.loadall: the lump class the block and group select; EndsWithF is
\* group.endswith('f') on the group names that occur
Decoder(block, group, flags) ==
    LET EndsWithF(g) == g \in {"65f"}
    IN
    IF block = "walls" THEN "WallLump"
    ELSE IF block = "flats" THEN "FlatLump"
    ELSE IF \/ block \in {"sprites", "bursts", "flame", "greeneye", "monsters",
                           "wolf", "spell"}
            \/ block = "item" /\ EndsWithF(group)
            \/ block = "General" /\ group \in {"animateobelisk", "bombexplode",
                                                "boomarang", "boomhit"}
         THEN "SpriteLump"
    ELSE IF /\ \/ block \in {"item", "cursor", "handicons", "newcursors"}
               \/ block = "General" /\ group \notin
                     {"view", "greymask", "brownmask", "greenmask", "goldmask",
                      "fontdisk", "shadowpage"}
            /\ flags = 0
         THEN "GUILump"
    ELSE "Lump"

\* the load() of class cls on the lump's bytes raises (the bytes do not
\* decode); the raw Lump.load never does on an open file
DecodeRaises(lump, cls) == cls # "Lump" /\ lump.bytes = "raises"

\* the data a successful load() of class cls leaves: SpriteLump.load returns
\* without touching data when the width is outside 1..320
Decoded(lump, cls) ==
    IF cls = "Lump" THEN "raw"
    ELSE IF cls = "SpriteLump" /\ lump.bytes = "badwidth" THEN lump.data
    ELSE "image"

\* a loop body that leaves a lump whose decode raised as it is
LoadOneNoFallback(lump) ==
    LET cls == Decoder(lump.block, lump.group, lump.flags)
    IN IF ~DecodeRaises(lump, cls)
       THEN [lump EXCEPT !.class = cls, !.data = Decoded(lump, cls)]
       ELSE [lump EXCEPT !.class = cls, !.logged = TRUE]

\* DatFile.loadall on an open file, the loop body: the typed load, and on
\* any exception the report and the reload as a raw Lump
LoadOne(lump) ==
    LET cls == Decoder(lump.block, lump.group, lump.flags)
    IN IF ~DecodeRaises(lump, cls)
       THEN [lump EXCEPT !.class = cls, !.data = Decoded(lump, cls)]
       ELSE [lump EXCEPT !.class = "Lump", !.data = "raw", !.logged = TRUE]

\* a raw load that does not notice the closed file
RawLoadUnchecked(lump, open) == [lump EXCEPT !.data = "raw"]

\* Lump.load (raw) of either archive: seek() on a closed file raises
\* ValueError before data is assigned
RawLoad(lump, open) == IF open THEN [lump EXCEPT !.data = "raw"] ELSE lump

Outcome(op, err) == [op |-> op, err |-> err]

\* no level is being drawn
NoLevel ==
    /\ mapdata = Level(EmptyDict, EmptyCell(0, 0), EmptyDict, EmptyDict, EmptyDict,
                       EmptyDict, <<>>)
    /\ catelogentry = Mapentry(<<>>, NoMods, NoMods)
    /\ maxceil = 0
    /\ minfloor = 0
    /\ data = EmptyDict
    /\ creatures = EmptyDict
    /\ faces = [n \in TileNames |-> EmptyDict]
    /\ gencalls = <<>>
    /\ mappicture = <<>>
    /\ minx = 0
    /\ maxx = 0
    /\ miny = 0
    /\ maxy = 0
    /\ pos = 0
    /\ lastspot = -1
    /\ lastret = "none"
    /\ passes = 0
    /\ calls = <<>>

\* bound of the number of sized lumps in a dat directory
MaxLumps == 2

\* a directory entry of a dat file, with what a decoder makes of its bytes
DatEntry(name, size, flags, bytes) ==
    [name |-> name, nameoffs |-> IF name = NoName THEN 0 ELSE 1, size |-> size,
     flags |-> flags, bytes |-> bytes]

\* the directories the runs read: an optional block marker (size 0) and
\* sized lumps, named or not, RLE-flagged or not, whose bytes decode, do not
\* decode, or carry a sprite width outside 1..320
DatDirectories ==
    {(IF m = NoName THEN <<>> ELSE <<DatEntry(m, 0, 0, "ok")>>) \o ls :
        m \in {"STARTWALLS", "endwalls", "startsprites", NoName},
        ls \in UNION {[1 .. k ->
                         {DatEntry(n, 200, fb[1], fb[2]) :
                             n \in {"Door1", "view", NoName},
                             fb \in {<<0, "ok">>, <<0, "raises">>, <<1, "ok">>,
                                     <<1, "raises">>, <<0, "badwidth">>}}] :
                      k \in 1 .. MaxLumps}}

\* DatFile.__init__
DatOpen ==
    /\ pc = "archive"
    /\ \A a \in ArchiveNames : handles[a] = "unopened"
    /\ \E dir \in DatDirectories : datlumps' = DatScan(dir, Len(dir)).lumps
    /\ handles' = [handles EXCEPT !["cddat"] = "open"]
    /\ lasterr' = Outcome("open", "none")
    /\ UNCHANGED <<pc, libdb, levelvars>>

\* lump.load() on a dat lump that is a raw Lump
DatLumpLoad ==
    /\ pc = "archive"
    /\ handles["cddat"] \in {"open", "closed"}
    /\ \E j \in 1 .. Len(datlumps) :
         /\ datlumps[j].class = "Lump"
         /\ datlumps' = [datlumps EXCEPT
                            ![j] = RawLoad(@, handles["cddat"] = "open")]
    /\ lasterr' = Outcome("load", IF handles["cddat"] = "open" THEN "none"
                                  ELSE "ValueError")
    /\ UNCHANGED <<pc, handles, libdb, levelvars>>

\* DatFile.loadall: on an open file every lump gets its loop body; on a closed
\* file the typed load of the first lump (the first of some block and group,
\* in dictionary order) raises, and so does its reload as a raw Lump
DatLoadAll ==
    /\ pc = "archive"
    /\ handles["cddat"] \in {"open", "closed"}
    /\ IF handles["cddat"] = "open"
       THEN /\ datlumps' = [j \in 1 .. Len(datlumps) |-> LoadOne(datlumps[j])]
            /\ lasterr' = Outcome("loadall", "none")
       ELSE /\ \E j \in 1 .. Len(datlumps) :
                 /\ \A i \in 1 .. (j - 1) :
                       ~(datlumps[i].block = datlumps[j].block
                         /\ datlumps[i].group = datlumps[j].group)
                 /\ datlumps' = [datlumps EXCEPT ![j].class = "Lump",
                                                  ![j].logged = TRUE]
            /\ lasterr' = Outcome("loadall", "ValueError")
    /\ UNCHANGED <<pc, handles, libdb, levelvars>>

\* DatFile.close
DatClose ==
    /\ pc = "archive"
    /\ handles["cddat"] \in {"open", "closed"}
    /\ handles' = [handles EXCEPT !["cddat"] = "closed"]
    /\ lasterr' = Outcome("close", "none")
    /\ UNCHANGED <<pc, libdb, datlumps, levelvars>>

----------------------------------------------------------------------------
(* The lib archive (shadowlib.py) and its entity lumps (shadowmap.py)       *)

\* lib Lump.__init__: name is the 13 bytes of the entry without the zero
\* padding, as they are in the file
LibLump(name, size) ==
    [name |-> name, size |-> size, class |-> "Lump", data |-> "unset", nrecords |-> 0]

\* the extension of a name, as MapSet.__init__ matches it
Extension(name) ==
    CASE name = "ruinsa.itm" -> ".itm"
      [] name = "ruinsa.dor" -> ".dor"
      [] name = "RUINSA.DOR" -> ".DOR"
      [] OTHER -> ""

\* MapSet.__init__: the lump class of an extension
EntityClasses == [e \in {".dor", ".itm", ".ojt", ".crt", ".arc"} |->
                    CASE e = ".dor" -> "DoorLump"
                      [] e = ".itm" -> "ItemLump"
                      [] e = ".ojt" -> "ObjectLump"
                      [] e = ".crt" -> "CreatureLump"
                      [] e = ".arc" -> "ActorLump"]

\* struct.calcsize of the record format of the class
RecordSize(class) ==
    CASE class = "DoorLump" -> 52
      [] class = "ItemLump" -> 42
      [] class = "ObjectLump" -> 57
      [] class = "CreatureLump" -> 202
      [] class = "ActorLump" -> 1091

\* DoorLump.load, ItemLump.load, ...: range(self.size / struct.calcsize(...))
RecordCount(size, class) == size \div RecordSize(class)

\* the load() of the lump's class on an open or closed file
LumpLoad(lump, open) ==
    IF lump.class = "Lump" THEN RawLoad(lump, open)
    ELSE IF ~open THEN lump
    ELSE [lump EXCEPT !.data = "table",
                      !.nrecords = RecordCount(lump.size, lump.class)]

\* the db LibFile.__init__ builds from a directory of one to three entries
LibDirectories ==
    UNION {{[n \in names |-> LibLump(n, sizes[n])] : sizes \in [names -> {42, 43, 104}]} :
              names \in (SUBSET {"ruinsa.itm", "ruinsa.dor", "RUINSA.DOR"}) \ {{}}}

\* LibFile.__init__
LibOpen ==
    /\ pc = "archive"
    /\ \A a \in ArchiveNames : handles[a] = "unopened"
    /\ \E db \in LibDirectories : libdb' = db
    /\ handles' = [handles EXCEPT !["lib"] = "open"]
    /\ lasterr' = Outcome("open", "none")
    /\ UNCHANGED <<pc, datlumps, levelvars>>

\* lump.load() on one lump of the lib, whatever its class
LibLumpLoad ==
    /\ pc = "archive"
    /\ handles["lib"] \in {"open", "closed"}
    /\ \E n \in DOMAIN libdb :
         libdb' = [libdb EXCEPT ![n] = LumpLoad(@, handles["lib"] = "open")]
    /\ lasterr' = Outcome("load", IF handles["lib"] = "open" THEN "none"
                                  ELSE "ValueError")
    /\ UNCHANGED <<pc, handles, datlumps, levelvars>>

\* MapSet.__init__, a related lump: templump.__class__ = classtype;
\* templump.load()
EntityLumpLoad ==
    /\ pc = "archive"
    /\ handles["lib"] \in {"open", "closed"}
    /\ \E n \in DOMAIN libdb :
         /\ Extension(n) \in DOMAIN EntityClasses
         /\ libdb' = [libdb EXCEPT
                         ![n] = LumpLoad([@ EXCEPT !.class = EntityClasses[Extension(n)]],
                                         handles["lib"] = "open")]
    /\ lasterr' = Outcome("load", IF handles["lib"] = "open" THEN "none"
                                  ELSE "ValueError")
    /\ UNCHANGED <<pc, handles, datlumps, levelvars>>

\* LibFile.loadall: on a closed file the first load() raises
LibLoadAll ==
    /\ pc = "archive"
    /\ handles["lib"] \in {"open", "closed"}
    /\ libdb' = [n \in DOMAIN libdb |-> LumpLoad(libdb[n], handles["lib"] = "open")]
    /\ lasterr' = Outcome("loadall", IF handles["lib"] = "open" THEN "none"
                                     ELSE "ValueError")
    /\ UNCHANGED <<pc, handles, datlumps, levelvars>>

\* LibFile.close
LibClose ==
    /\ pc = "archive"
    /\ handles["lib"] \in {"open", "closed"}
    /\ handles' = [handles EXCEPT !["lib"] = "closed"]
    /\ lasterr' = Outcome("close", "none")
    /\ UNCHANGED <<pc, libdb, datlumps, levelvars>>

NextArchive ==
    \/ DatOpen \/ DatLumpLoad \/ DatLoadAll \/ DatClose
    \/ LibOpen \/ LibLumpLoad \/ EntityLumpLoad \/ LibLoadAll \/ LibClose

InitArchive == pc = "archive" /\ NoLevel /\ ArchivesUnopened

SpecArchive == InitArchive /\ [][NextArchive]_vars

\* bound of the number of entries of a scanned dat directory
MaxEntries == 3

\* the directories with block markers: every entry is a zero-size marker
\* (named or not) or a sized lump (named or not); the size of the sized entry
\* at position p is 100 * p, so that no two lumps of a directory are equal
BlockDirectories ==
    UNION {{[p \in 1 .. k |->
                DatEntry(f[p][1], f[p][2] * 100 * p, 0, "ok")] :
              f \in [1 .. k ->
                       ({"startmonsters", "endmonsters", "startwalls", "endwalls",
                         "startflats", "newcursors", NoName} \X {0})
                       \cup ({"Door1", NoName} \X {1})]} :
           k \in 1 .. MaxEntries}

\* DatFile.__init__ on a directory with block markers
DatOpenBlocks ==
    /\ pc = "archive"
    /\ \A a \in ArchiveNames : handles[a] = "unopened"
    /\ \E dir \in BlockDirectories :
         /\ datlumps' = DatScan(dir, Len(dir)).lumps
         /\ calls' = <<[dir |-> dir]>>
    /\ handles' = [handles EXCEPT !["cddat"] = "open"]
    /\ lasterr' = Outcome("open", "none")
    /\ UNCHANGED <<pc, libdb, mapdata, catelogentry, maxceil, minfloor, data,
                   creatures, faces, gencalls, mappicture, minx, maxx, miny,
                   maxy, pos, lastspot, lastret, passes>>

SpecScan == InitArchive /\ [][DatOpenBlocks]_vars

\* DatFile.idxdata[block]: the lumps appended under the block, in the order
\* of the appends
idxdata(lumps, block) ==
    LET inblock(l) == l.block = block IN SelectSeq(lumps, inblock)

\* DatFile.data[block][group]
datadict(lumps, block, group) ==
    LET ingroup(l) == l.block = block /\ l.group = group
    IN SelectSeq(lumps, ingroup)

\* a loadwalls that numbers the walls from 0
loadwallsZeroBased(lumps, id) ==
    IF id = 0 THEN [tile |-> "emptytile"]
    ELSE IF (id + 1) \in 1 .. Len(idxdata(lumps, "walls"))
         THEN [tile |-> "walltile", lump |-> idxdata(lumps, "walls")[id + 1]]
         ELSE [tile |-> "None"]

\* db.walls[id] of a catalog built on the scanned archive: loadwalls sets
\* walls[index+1] to the tile of the lump, then walls[0] = emptytile
loadwalls(lumps, id) ==
    IF id = 0 THEN [tile |-> "emptytile"]
    ELSE IF id \in 1 .. Len(idxdata(lumps, "walls"))
         THEN [tile |-> "walltile", lump |-> idxdata(lumps, "walls")[id]]
         ELSE [tile |-> "None"]

\* db.floors[id]: loadfloors sets floors[index+1] to the tile of the lump,
\* then floors[1] = emptytile
loadfloors(lumps, id) ==
    IF id = 1 THEN [tile |-> "emptytile"]
    ELSE IF id \in 1 .. Len(idxdata(lumps, "flats"))
         THEN [tile |-> "floortile", lump |-> idxdata(lumps, "flats")[id]]
         ELSE [tile |-> "None"]

----------------------------------------------------------------------------
(* The run of the mapper (isomap.py __main__): the statements in order; an  *)
(* exception in any of them ends the run where it is raised.  The mapper    *)
(* object of a level is local to its loop iteration.                        *)

\* lib = shadowlib.LibFile(libname); maps = shadowmap.MapSet(lib)
MainOpenLib ==
    /\ pc = "main"
    /\ \E ok \in {"no file", "bad lump", "ok"} :
         IF ok = "no file"
         THEN /\ pc' = "exited"
              /\ lasterr' = Outcome("open", "IOError")
              /\ UNCHANGED <<handles, libdb>>
         ELSE /\ handles' = [handles EXCEPT !["lib"] = "open"]
              /\ \E db \in LibDirectories :
                    libdb' = [n \in DOMAIN db |->
                                IF Extension(n) \in DOMAIN EntityClasses
                                   /\ ok = "ok"
                                THEN LumpLoad([db[n] EXCEPT
                                                 !.class = EntityClasses[Extension(n)]],
                                              TRUE)
                                ELSE db[n]]
              /\ pc' = IF ok = "ok" THEN "lib" ELSE "exited"
              /\ lasterr' = Outcome("open", IF ok = "ok" THEN "none" ELSE "raised")
    /\ UNCHANGED <<datlumps, levelvars>>

\* cddat = shadowdat.DatFile(cddatname); hddat = shadowdat.DatFile(hddatname)
MainOpenDat ==
    /\ pc \in {"lib", "cddat"}
    /\ \E ok \in BOOLEAN :
         IF ~ok
         THEN /\ pc' = "exited"
              /\ lasterr' = Outcome("open", "IOError")
              /\ UNCHANGED <<handles, datlumps>>
         ELSE IF pc = "lib"
         THEN /\ handles' = [handles EXCEPT !["cddat"] = "open"]
              /\ \E dir \in DatDirectories : datlumps' = DatScan(dir, Len(dir)).lumps
              /\ pc' = "cddat"
              /\ lasterr' = Outcome("open", "none")
         ELSE /\ handles' = [handles EXCEPT !["hddat"] = "open"]
              /\ pc' = "hddat"
              /\ lasterr' = Outcome("open", "none")
              /\ UNCHANGED datlumps
    /\ UNCHANGED <<libdb, levelvars>>

\* cddat.loadall(); hddat.loadall(); database = shadowdb.db(cddat, hddat);
\* catelog = mapcatelog.MapList(cddat, hddat); os.mkdir(outpath): the
\* lookups of db and MapList raise when a resource they name is missing;
\* passes becomes the number of levels of the catalog
MainLoadAll ==
    /\ pc = "hddat"
    /\ datlumps' = [j \in 1 .. Len(datlumps) |-> LoadOne(datlumps[j])]
    /\ \E ok \in BOOLEAN :
         /\ pc' = IF ok THEN "loaded" ELSE "exited"
         /\ lasterr' = Outcome("loadall", IF ok THEN "none" ELSE "raised")
         /\ IF ok THEN passes' \in 0 .. MaxLevels ELSE passes' = passes
    /\ UNCHANGED <<mapdata, catelogentry, maxceil, minfloor, data, creatures, faces,
                   gencalls, mappicture, minx, maxx, miny, maxy, pos, lastspot,
                   lastret, calls, handles, libdb>>

\* one iteration of the loop over catelog.maplist: isomap(...), generate(),
\* save(outpath), any of which may raise
MainLevel ==
    /\ pc = "loaded"
    /\ passes > 0
    /\ passes' = passes - 1
    /\ \E ok \in BOOLEAN :
         /\ pc' = IF ok THEN "loaded" ELSE "exited"
         /\ lasterr' = Outcome("level", IF ok THEN "none" ELSE "raised")
    /\ UNCHANGED <<mapdata, catelogentry, maxceil, minfloor, data, creatures, faces,
                   gencalls, mappicture, minx, maxx, miny, maxy, pos, lastspot,
                   lastret, calls, handles, libdb, datlumps>>

\* after the last level: lib.close(); cddat.close(); hddat.close()
MainClose ==
    /\ pc = "loaded"
    /\ passes = 0
    /\ handles' = [a \in ArchiveNames |-> "closed"]
    /\ pc' = "exited"
    /\ lasterr' = Outcome("close", "none")
    /\ UNCHANGED <<libdb, datlumps, levelvars>>

NextMain == MainOpenLib \/ MainOpenDat \/ MainLoadAll \/ MainLevel \/ MainClose

InitMain == pc = "main" /\ NoLevel /\ ArchivesUnopened

SpecMain == InitMain /\ [][NextMain]_vars

----------------------------------------------------------------------------
(* The image decoders of the dat lumps (shadowdat.py): WallLump.load and    *)
(* SpriteLump.load on small bitmaps                                         *)

\* a PIL image: size (w, h) and the pixels in getdata() order, row by row
Img(w, h, px) == [w |-> w, h |-> h, px |-> px]

PixelAt(img, x, y) == img.px[y * img.w + x]

\* a mask that hides the last colour of the palette instead of colour 0
maskimageLastColour(inimage) ==
    Img(inimage.w, inimage.h,
        [ofs \in DOMAIN inimage.px |->
            [value |-> inimage.px[ofs],
             alpha |-> IF inimage.px[ofs] = 255 THEN 0 ELSE 255]])

\* WallLump.maskimage: the RGBA image whose alpha is 0 where the value of the
\* palette image is 0 and 255 elsewhere
maskimage(inimage) ==
    Img(inimage.w, inimage.h,
        [ofs \in DOMAIN inimage.px |->
            [value |-> inimage.px[ofs],
             alpha |-> IF inimage.px[ofs] = 0 THEN 0 ELSE 255]])

\* Image.rotate(-90): a quarter turn clockwise, the size becomes (h, w) and
\* the pixel (x, y) of the result is the pixel (y, h - 1 - x) of the image
rotate(img) ==
    Img(img.h, img.w,
        [ofs \in 0 .. (img.w * img.h - 1) |->
            PixelAt(img, ofs \div img.h, img.h - 1 - (ofs % img.h))])

\* ImageOps.mirror: left and right exchanged
mirror(img) ==
    Img(img.w, img.h,
        [ofs \in 0 .. (img.w * img.h - 1) |->
            PixelAt(img, img.w - 1 - (ofs % img.w), ofs \div img.w)])

\* a flip that leaves the image as it is
flipNone(img) == img

\* ImageOps.flip: top and bottom exchanged
flip(img) ==
    Img(img.w, img.h,
        [ofs \in 0 .. (img.w * img.h - 1) |->
            PixelAt(img, ofs % img.w, img.h - 1 - (ofs \div img.w))])

\* Image.crop((0, 0, w, bottom)): the rows above bottom
crop(img, bottom) ==
    Img(img.w, bottom, [ofs \in 0 .. (img.w * bottom - 1) |-> img.px[ofs]])

\* the width of a wall lump in the checked files (64 in the archives)
WallWidth == 2

\* WallLump.load: the bytes are a palette image of size (qheight*4, width),
\* masked on request, turned and mirrored
WallLoad(lump, processmask) ==
    LET tempimage == Img(lump.qheight * 4, WallWidth, lump.bytes)
        masked == IF processmask THEN maskimage(tempimage) ELSE tempimage
    IN mirror(rotate(masked))

\* the rows of the buffer SpriteLump.load decodes into
BufferRows == 320

\* SpriteLump.load, the loop body of column x: the run header, colsize bytes
\* read from the file, byte index written at row yend - index
RECURSIVE WriteColumn(_, _, _, _, _)
WriteColumn(buf, width, x, col, count) ==
    IF count = 0 THEN buf
    ELSE LET b == WriteColumn(buf, width, x, col, count - 1)
             index == count - 1
             value == col.filebytes[count]
             at == (col.yend - index) * width + x
         IN [tempdata |-> [b.tempdata EXCEPT ![at] = value],
             tempmask |-> IF value # 0 THEN [b.tempmask EXCEPT ![at] = 255]
                          ELSE b.tempmask]

\* SpriteLump.load: the columns 0 .. n-1 decoded into the buffers; a column
\* with offset 0 is skipped; a negative colsize makes struct.unpack raise
RECURSIVE SpriteColumns(_, _)
SpriteColumns(lump, n) ==
    IF n = 0
    THEN [tempdata |-> [ofs \in 0 .. (lump.width * BufferRows - 1) |-> 0],
          tempmask |-> [ofs \in 0 .. (lump.width * BufferRows - 1) |-> 0],
          maxheight |-> 0, ok |-> TRUE]
    ELSE LET st == SpriteColumns(lump, n - 1)
             col == lump.columns[n]
             colsize == col.yend - col.ystart + 1
         IN IF ~st.ok \/ col.offset = 0 THEN st
            ELSE IF colsize < 0 THEN [st EXCEPT !.ok = FALSE]
            ELSE LET b == WriteColumn(st, lump.width, n - 1, col, colsize)
                 IN [tempdata |-> b.tempdata, tempmask |-> b.tempmask,
                     maxheight |-> Max2(st.maxheight, col.yend), ok |-> TRUE]

\* SpriteLump.load: the buffers as an RGBA image of 320 rows, cropped to
\* maxheight + 1 rows and flipped
SpriteLoad(lump) ==
    LET st == SpriteColumns(lump, lump.width)
        tempimage == Img(lump.width, BufferRows,
                         [ofs \in 0 .. (lump.width * BufferRows - 1) |->
                             [value |-> st.tempdata[ofs],
                              alpha |-> st.tempmask[ofs]]])
    IN flip(crop(tempimage, st.maxheight + 1))

\* bound of the width of the decoded sprites
MaxSpriteWidth == 2

\* the wall lumps: one quarter-height unit (4 pixels) by WallWidth, every
\* pixel colour 0, an inner colour or the last colour
WallFiles ==
    {[class |-> "WallLump", qheight |-> 1, bytes |-> b, data |-> "unset"] :
        b \in [0 .. (4 * WallWidth - 1) -> {0, 255}]}

\* the sprite lumps: a header width of 0, 1 .. MaxSpriteWidth or 321; per
\* column no run (offset 0) or a run header with its bytes, followed in the
\* file by a byte of something else
SpriteFiles ==
    LET runs == {<<5, 3>>, <<0, 0>>, <<255, 254>>, <<3, 5>>, <<4, 5>>}
        cols == {[offset |-> 0, yend |-> 0, ystart |-> 0, filebytes |-> <<9>>]}
                \cup UNION {{[offset |-> 8, yend |-> r[1], ystart |-> r[2],
                              filebytes |-> b \o <<9>>] :
                                b \in [1 .. (r[1] - r[2] + 1) -> {0, 7}]} :
                            r \in runs}
    IN {[class |-> "SpriteLump", width |-> w, columns |-> <<>>, data |-> "unset"] :
           w \in {0, 321}}
       \cup UNION {{[class |-> "SpriteLump", width |-> w, columns |-> c,
                     data |-> "unset"] : c \in [1 .. w -> cols]} :
                   w \in 1 .. MaxSpriteWidth}

\* WallLump.load
WallLumpLoad ==
    /\ pc = "decode"
    /\ datlumps[1].class = "WallLump"
    /\ lasterr.op = "none"
    /\ \E processmask \in BOOLEAN :
         /\ datlumps' = <<[datlumps[1] EXCEPT !.data = WallLoad(datlumps[1], processmask)]>>
         /\ lasterr' = Outcome(IF processmask THEN "load masked" ELSE "load", "none")
    /\ UNCHANGED <<pc, handles, libdb, levelvars>>

\* SpriteLump.load: returns at once on a width outside 1 .. 320, raises on a
\* malformed run, stores the decoded image otherwise
SpriteLumpLoad ==
    /\ pc = "decode"
    /\ datlumps[1].class = "SpriteLump"
    /\ lasterr.op = "none"
    /\ LET lump == datlumps[1]
           skip == lump.width > 320 \/ lump.width <= 0
           ok == skip \/ SpriteColumns(lump, lump.width).ok
       IN /\ datlumps' = IF skip \/ ~ok THEN datlumps
                         ELSE <<[lump EXCEPT !.data = SpriteLoad(lump)]>>
          /\ lasterr' = Outcome("load", IF ok THEN "none" ELSE "struct.error")
    /\ UNCHANGED <<pc, handles, libdb, levelvars>>

InitDecode ==
    /\ pc = "decode"
    /\ NoLevel
    /\ handles = [a \in ArchiveNames |-> "open"]
    /\ libdb = EmptyDict
    /\ lasterr = [op |-> "none", err |-> "none"]
    /\ \E lump \in WallFiles \cup SpriteFiles : datlumps = <<lump>>

SpecDecode == InitDecode /\ [][WallLumpLoad \/ SpriteLumpLoad]_vars

----------------------------------------------------------------------------
(* Properties *)

\* the cells a and b can overlap on the canvas: their columns x - y differ
\* by at most one
Overlap(a, b) ==
    (SpotX(a) - SpotY(a)) - (SpotX(b) - SpotY(b)) \in -1 .. 1

\* C1: generate() calls draw() on the 1024 cells once each in ascending grid
\* index (row-major: index = y*32 + x), and the order is back to front: a cell
\* drawn before the current one whose column can overlap it lies higher on the
\* canvas (smaller isoY).
C1_DrawOrderBackToFront ==
    pos > 0 =>
      /\ lastspot = pos - 1
      /\ (pc \in {"generated", "saved"} => pos = NumCells)
      /\ LET b == DataAt(lastspot)
         IN /\ b.x \in 0 .. 31 /\ b.y \in 0 .. 31
            /\ lastspot = b.y * 32 + b.x
            /\ \A a \in 0 .. (lastspot - 1) :
                  Overlap(a, lastspot) => IsoY(SpotX(a), SpotY(a)) < b.isoy

\* C1 witness: generate() ran to its end, the last draw() was on cell 1023
C1_Witness == pc = "generated" /\ pos = NumCells /\ lastspot = NumCells - 1

\* C6: the projection is injective on the grid: no other cell has the canvas
\* origin of the cell just drawn.
C6_ProjectionInjective ==
    pos > 0 =>
      LET b == DataAt(lastspot)
      IN \A a \in Cells :
           a # lastspot =>
             ~(IsoX(SpotX(a), SpotY(a)) = b.isox /\ IsoY(SpotX(a), SpotY(a)) = b.isoy)

\* C6 witness: every cell has been drawn and compared with all the others
C6_Witness == pc = "saved" /\ pos = NumCells

\* the rank of a layer in the order of MapSpot.draw
LayerRank(kind) ==
    CASE kind = "northwall" -> 1
      [] kind = "westwall" -> 2
      [] kind = "floor" -> 3
      [] kind = "door" -> 4
      [] kind = "item" -> 5
      [] kind = "object" -> 6
      [] kind = "creature" -> 7
      [] kind = "markup" -> 8

\* the catalog sprite and the record an item, object or creature paint
\* operation belongs to
SpriteOfOp(spot, op) ==
    CASE op.kind = "item" -> spot.items[op.n]
      [] op.kind = "object" -> spot.objects[op.n]
      [] op.kind = "creature" -> spot.creature

RecordOfOp(spot, op) ==
    CASE op.kind = "item" -> spot.itemdata[op.n]
      [] op.kind = "object" -> spot.objectdata[op.n]
      [] op.kind = "creature" -> spot.creaturedata[1]

SpriteImageOps == {j \in 1 .. Len(mappicture) :
                     /\ mappicture[j].kind \in {"item", "object", "creature"}
                     /\ mappicture[j].part = "image"}

\* the spot a draw() call was made on
Drawn == pc \in {"drawn", "error"}
DrawnSpot == data[lastspot]

\* C2: one draw() call paints in the order north wall, west wall, floor, door,
\* items, objects, creature, markup, the items and objects in the order of the
\* stored lists, for every combination of cell contents.
C2_PaintOrder ==
    Drawn =>
      /\ \A j \in 1 .. (Len(mappicture) - 1) :
            /\ LayerRank(mappicture[j].kind) <= LayerRank(mappicture[j + 1].kind)
            /\ mappicture[j].kind = mappicture[j + 1].kind
                  => mappicture[j].n <= mappicture[j + 1].n
      /\ \A j \in SpriteImageOps :
            mappicture[j].y = SpriteTop(SpriteOfOp(DrawnSpot, mappicture[j]),
                                        RecordOfOp(DrawnSpot, mappicture[j]), DrawnSpot)

\* C2 witness: a cell with all eight layers, two items and two objects, drawn
C2_Witness ==
    /\ pc = "drawn"
    /\ {mappicture[j].kind : j \in 1 .. Len(mappicture)} =
          {"northwall", "westwall", "floor", "door", "item", "object", "creature",
           "markup"}
    /\ Len(DrawnSpot.items) = 2
    /\ Len(DrawnSpot.objects) = 2

StablySorted(recs) ==
    /\ \A j, k \in 1 .. Len(recs) :
          j < k => \/ recs[j].subx < recs[k].subx
                   \/ recs[j].subx = recs[k].subx /\ recs[j].uniqid < recs[k].uniqid
    /\ {recs[j].uniqid : j \in 1 .. Len(recs)} = 1 .. Len(recs)

\* C7: after additems()/addobjects() the cell's itemdata (objectdata) is in
\* ascending subx order whatever the input order, equal subx in input order,
\* items[i] (objects[i]) is the catalog sprite of itemdata[i] (objectdata[i]),
\* and draw() paints them in that order.
C7_SortedBySubx ==
    \A i \in DOMAIN data :
      LET s == data[i]
      IN /\ StablySorted(s.itemdata)
         /\ StablySorted(s.objectdata)
         /\ Len(s.items) = Len(s.itemdata)
         /\ Len(s.objects) = Len(s.objectdata)
         /\ \A j \in 1 .. Len(s.itemdata) :
               /\ s.items[j] = items(s.itemdata[j].itemtype)
               /\ s.itemdata[j].itemtype = ItemTypeOf(s.itemdata[j].uniqid)
         /\ \A j \in 1 .. Len(s.objectdata) :
               /\ s.objects[j] = objects(s.objectdata[j].name)
               /\ s.objectdata[j].name = ObjectNameOf(s.objectdata[j].uniqid)
         /\ (pc = "drawn" /\ lastspot = i /\ ~s.solid) =>
               /\ [j \in 1 .. Len(s.items) |-> j] =
                    LET idx == {j \in SpriteImageOps : mappicture[j].kind = "item"}
                    IN [j \in 1 .. Cardinality(idx) |->
                          mappicture[CHOOSE q \in idx :
                             Cardinality({r \in idx : r <= q}) = j].n]
               /\ [j \in 1 .. Len(s.objects) |-> j] =
                    LET idx == {j \in SpriteImageOps : mappicture[j].kind = "object"}
                    IN [j \in 1 .. Cardinality(idx) |->
                          mappicture[CHOOSE q \in idx :
                             Cardinality({r \in idx : r <= q}) = j].n]

\* C7 witness: the items arrived right to left (the second input record is
\* stored first), two objects too, and the open cell was drawn
C7_Witness ==
    /\ pc = "drawn"
    /\ ~DrawnSpot.solid
    /\ Len(DrawnSpot.itemdata) = 2
    /\ DrawnSpot.itemdata[1].uniqid = 2
    /\ Len(DrawnSpot.objectdata) = 2
    /\ DrawnSpot.objectdata[1].uniqid = 2

\* C8: a sprite of declared height >= 0 is painted at height
\* min(declared, floordepth - ceildepth - image height), so its top edge is
\* never above the ceiling line isoy + ceildepth + subisoy; a sprite of
\* negative declared height is painted with its top edge on that line.
C8_SpriteBelowCeiling ==
    Drawn =>
      \A j \in SpriteImageOps :
        LET op == mappicture[j]
            tile == SpriteOfOp(DrawnSpot, op)
            rec == RecordOfOp(DrawnSpot, op)
            subisoy == (rec.subx + rec.suby) \div 2
            ceilline == DrawnSpot.isoy + DrawnSpot.ceildepth + subisoy
            room == DrawnSpot.floordepth - DrawnSpot.ceildepth - tile.h
            effective == IF tile.height <= room THEN tile.height ELSE room
        IN IF tile.height >= 0
           THEN /\ op.y = DrawnSpot.isoy + DrawnSpot.floordepth - effective
                            + subisoy - tile.h
                /\ op.y >= ceilline
           ELSE op.y = ceilline

\* C8 witness: a floating creature taller than the room (its height is
\* clamped), and a ceiling object, were painted
C8_Witness ==
    /\ pc = "drawn"
    /\ \E j \in SpriteImageOps :
          /\ mappicture[j].kind = "creature"
          /\ DrawnSpot.creature.height > 0
          /\ DrawnSpot.floordepth - DrawnSpot.ceildepth - DrawnSpot.creature.h
                < DrawnSpot.creature.height
    /\ \E j \in SpriteImageOps :
          /\ mappicture[j].kind = "object"
          /\ DrawnSpot.objects[mappicture[j].n].height < 0

\* the cell has a wall tile in the direction
HasWall(spot, direction) == spot.wall[direction + 1].kind = "walltile"

\* every cell of the level is empty once the overrides of the catalog entry
\* are applied (empty floor sentinel, no wall), and the entry has no markup
AllEmptyLevel ==
    /\ catelogentry.markup = <<>>
    /\ \A i \in Cells :
          LET s == DataAt(i) IN s.solid /\ ~HasWall(s, NORTH) /\ ~HasWall(s, WEST)

\* every cell of the level file has the empty floor sentinel and no walls
RawAllEmptyLevel ==
    \A i \in Cells :
       /\ LayerAt(mapdata, FLOOR, i) = 1
       /\ LayerAt(mapdata, NORTHWALL, i) = 0
       /\ LayerAt(mapdata, WESTWALL, i) = 0

\* the crop box selects no pixel
EmptyBox == maxx <= minx /\ maxy <= miny

\* C9 (amended): draw() returns false and paints nothing on an empty cell
\* without markup, whatever entities are attached to it; so for a level whose
\* cells are all empty after the overrides and whose catalog entry has no
\* markup, generate() paints nothing and the crop box stays the initial
\* inverted box (canvas width, canvas height, 0, 0), which selects no pixel.
C9_EmptyLevelPaintsNothing ==
    /\ pos > 0 =>
         LET s == DataAt(lastspot)
         IN (s.solid /\ ~HasWall(s, NORTH) /\ ~HasWall(s, WEST) /\ s.markupdata = <<>>)
              => /\ lastret = "False"
                 /\ \A j \in 1 .. Len(mappicture) : mappicture[j].index # lastspot
    /\ (pc \in {"generated", "saved"} /\ AllEmptyLevel) =>
         /\ mappicture = <<>>
         /\ Box = [minx |-> CanvasWidth, maxx |-> 0, miny |-> CanvasHeight, maxy |-> 0]
         /\ EmptyBox

\* C9 witness: a level of empty cells, entities attached to one of them, was
\* generated and saved
C9_Witness ==
    /\ pc = "saved"
    /\ AllEmptyLevel
    /\ \E i \in DOMAIN data : data[i].door # None /\ data[i].items # <<>>
    /\ lastret = "False"

\* C9 as claimed: whenever every cell of the level has the empty floor
\* sentinel and no walls, every draw() returns false, nothing is painted and
\* the crop box is empty.
C9_Original ==
    (pos > 0 /\ RawAllEmptyLevel) =>
       /\ lastret = "False"
       /\ mappicture = <<>>
       /\ pc \in {"generated", "saved"} => EmptyBox

\* the cells whose draw() returns true
DrawingCells ==
    {i \in Cells : LET s == DataAt(i)
                   IN ~s.solid \/ HasWall(s, NORTH) \/ HasWall(s, WEST)}

\* exactly one cell of the level draws, and it has a north wall
SingleNorthWallCell ==
    /\ Cardinality(DrawingCells) = 1
    /\ \A i \in DrawingCells : HasWall(DataAt(i), NORTH)

\* C10 (amended): when exactly one cell draws, the height of the crop box of
\* save() is the height range of the level, maxceil - minfloor, plus 64 below
\* the cell plus min(isoY, 64) above it: 128 more than the range for every
\* cell with x + y >= 2, less in the top corner where the box is cut at row 0.
\* The height of the wall image does not enter.
C10_CropHeight ==
    (pc = "saved" /\ SingleNorthWallCell) =>
       LET s == DataAt(CHOOSE i \in DrawingCells : TRUE)
       IN /\ maxy - miny = (maxceil - minfloor) + 64 + Min2(s.isoy, 64)
          /\ s.x + s.y >= 2 => maxy - miny = (maxceil - minfloor) + 128

\* C10 witness: the single cell is the top corner, where save() cuts the box
\* at row 0
C10_Witness ==
    /\ pc = "saved"
    /\ SingleNorthWallCell
    /\ DrawingCells = {0}
    /\ miny = 0

\* C10 as claimed: the height of the crop box is the height of the wall image
\* plus 64, for every position of the cell.
C10_Original ==
    (pc = "saved" /\ SingleNorthWallCell) =>
       LET s == DataAt(CHOOSE i \in DrawingCells : TRUE)
       IN maxy - miny = s.wall[NORTH + 1].h + 64

\* the calls made on one tile with one (wallorigin, ceildepth, floordepth)
\* triple
SameTriple(c, d) ==
    /\ c.tile = d.tile
    /\ c.wallorigin = d.wallorigin
    /\ c.ceildepth = d.ceildepth
    /\ c.floordepth = d.floordepth

\* C4: over any sequence of prepare_size() calls, a call generates faces
\* exactly when it is the first call on its tile for its (wallorigin,
\* ceildepth, floordepth) triple; the faces a call returns are those generated
\* from its triple, are still stored unchanged, and are those every earlier call
\* with the same triple got; generate_isometric ran once per tile and triple.
C4_FaceCache ==
    /\ \A j \in 1 .. Len(calls) :
          LET c == calls[j]
          IN /\ c.generated <=> (\A k \in 1 .. (j - 1) : ~SameTriple(calls[k], c))
             /\ c.face.wallorigin = c.wallorigin
             /\ c.face.ceildepth = c.ceildepth
             /\ c.face.floordepth = c.floordepth
             /\ c.key \in DOMAIN faces[c.tile]
             /\ faces[c.tile][c.key] = c.face
             /\ \A k \in 1 .. (j - 1) :
                   SameTriple(calls[k], c) => calls[k].face = c.face
    /\ \A j, k \in 1 .. Len(gencalls) :
          (j # k) => ~SameTriple(gencalls[j], gencalls[k])
    /\ Len(gencalls) =
         Cardinality({<<calls[j].tile, calls[j].wallorigin, calls[j].ceildepth,
                        calls[j].floordepth>> : j \in 1 .. Len(calls)})

\* C4 witness: a tile was asked twice for one triple, then for a triple that
\* differs in the wall origin only
C4_Witness ==
    /\ Len(calls) = 3
    /\ SameTriple(calls[1], calls[2])
    /\ ~calls[2].generated
    /\ calls[3].tile = calls[1].tile
    /\ calls[3].wallorigin # calls[1].wallorigin
    /\ calls[3].ceildepth = calls[1].ceildepth
    /\ calls[3].floordepth = calls[1].floordepth
    /\ calls[3].generated

\* C5: the index round trip: a record at (x, y), 0 <= x, y < 32, is filed
\* under index y*32 + x, and the spot of that index recovers exactly (x, y)
\* with x = index mod 32, y = index div 32; every index that carries a spot
\* maps to a pair in 0..31 x 0..31 whose mapindex is the index.
C5_IndexRoundTrip ==
    /\ \A k \in DOMAIN mapdata.itemlump :
          \A j \in 1 .. Len(mapdata.itemlump[k]) :
             LET it == mapdata.itemlump[k][j]
             IN /\ k = it.y * 32 + it.x
                /\ k \in 0 .. 1023
                /\ k % 32 = it.x
                /\ k \div 32 = it.y
    /\ \A i \in DOMAIN data :
          LET s == data[i]
          IN /\ s.index = i
             /\ s.x \in 0 .. 31
             /\ s.y \in 0 .. 31
             /\ mapindex(s.x, s.y) = i
             /\ \A j \in 1 .. Len(s.itemdata) :
                   s.itemdata[j].x = s.x /\ s.itemdata[j].y = s.y

\* C5 witness: two records of the cell (31, 17) were loaded and attached to
\* the spot of index 17*32 + 31
C5_Witness ==
    /\ pc = "initialized"
    /\ 575 \in DOMAIN data
    /\ Len(data[575].itemdata) = 2
    /\ data[575].x = 31
    /\ data[575].y = 17

\* C11: whenever draw() paints anything for a cell (wall, floor, door, item,
\* object, creature or manual markup) it returns true, so after generate() the
\* crop box contains the padded footprint [isox-64, isox+64] x
\* [isoy-64, isoy+maxceil-minfloor+64] of every cell that was painted.
C11_BoxCoversPaint ==
    /\ (pos > 0 /\ lastret # "raised") =>
         ((\E j \in 1 .. Len(mappicture) : mappicture[j].index = lastspot)
            => lastret = "True")
    /\ pc = "generated" =>
         \A j \in 1 .. Len(mappicture) :
            LET s == DataAt(mappicture[j].index)
            IN /\ minx <= s.isox - 64
               /\ maxx >= s.isox + 64
               /\ miny <= s.isoy - 64
               /\ maxy >= s.isoy + maxceil - minfloor + 64

\* C12: after loadall() on an open dat file every lump has the outcome its
\* own block, group, flags and bytes give it, whatever the other lumps did: a
\* lump whose decode raised is a raw Lump holding its raw bytes, and every
\* other lump has the class loadall selected for it and that class's data
LoadAllDone == lasterr = Outcome("loadall", "none") /\ handles["cddat"] = "open"
C12_LoadAllIsolatesFailures ==
    LoadAllDone =>
        \A j \in 1 .. Len(datlumps) :
           LET l == datlumps[j]
               cls == Decoder(l.block, l.group, l.flags)
           IN IF cls # "Lump" /\ l.bytes = "raises"
              THEN l.class = "Lump" /\ l.data = "raw"
              ELSE /\ l.class = cls
                   /\ cls = "Lump" => l.data = "raw"
                   /\ (cls # "Lump" /\ l.bytes = "ok") => l.data = "image"
C12_Witness ==
    /\ LoadAllDone
    /\ \E i, j \in 1 .. Len(datlumps) :
          /\ i < j
          /\ datlumps[i].bytes = "raises" /\ datlumps[i].logged
          /\ datlumps[i].class = "Lump" /\ datlumps[i].data = "raw"
          /\ datlumps[j].class = "WallLump" /\ datlumps[j].data = "image"

\* C13: after loadall() on an open dat file no lump with the RLE flag set has
\* been image-decoded: each one is a raw Lump holding its raw bytes, and the
\* unsupported format was reported for it
C13_RleNeverImageDecoded ==
    LoadAllDone =>
        \A j \in 1 .. Len(datlumps) :
           datlumps[j].flags # 0 =>
              /\ datlumps[j].class = "Lump"
              /\ datlumps[j].data = "raw"
              /\ datlumps[j].logged

\* C14: an entity lump (door, item, object, creature, actor) that load() has
\* turned into a table has a size that is an exact multiple of its record
\* width, and holds exactly size / width records: a size that is not a
\* multiple is never decoded into a shorter table
C14_RecordCountExact ==
    \A n \in DOMAIN libdb :
       libdb[n].data = "table" =>
          /\ libdb[n].size % RecordSize(libdb[n].class) = 0
          /\ libdb[n].nrecords * RecordSize(libdb[n].class) = libdb[n].size

\* C15: a load() or loadall() issued while the archive is closed raises and
\* leaves the data of every lump as it was; issued while the archive is open
\* it succeeds; and close() changes no lump, so that what was loaded before
\* it stays available
AnyClosed == \E a \in ArchiveNames : handles[a] = "closed"
C15_LoadAfterClose ==
    [][/\ lasterr'.op \in {"load", "loadall"} =>
            IF AnyClosed
            THEN /\ lasterr'.err = "ValueError"
                 /\ \A n \in DOMAIN libdb : libdb'[n].data = libdb[n].data
                 /\ \A j \in 1 .. Len(datlumps) : datlumps'[j].data = datlumps[j].data
            ELSE lasterr'.err = "none"
       /\ lasterr'.op = "close" => (libdb' = libdb /\ datlumps' = datlumps)]_vars
C15_Witness ==
    /\ AnyClosed
    /\ lasterr = Outcome("load", "ValueError")
    /\ \/ \E m, n \in DOMAIN libdb : libdb[m].data = "unset" /\ libdb[n].data = "table"
       \/ \E i, j \in 1 .. Len(datlumps) :
             datlumps[i].data = "unset" /\ datlumps[j].data = "image"

\* C17: every lump is stored under the lower-cased form of its name in the
\* file: a lib lump under that key of db, a dat lump under that group name
C17_NamesNormalized ==
    /\ \A n \in DOMAIN libdb : n = Lower(libdb[n].name)
    /\ \A j \in 1 .. Len(datlumps) :
          datlumps[j].nameoffs > 0 => datlumps[j].group = Lower(datlumps[j].name)

\* C16: when the run of the mapper has ended, normally or by an exception in
\* any statement, no archive it opened is still open
C16_HandlesClosedAtExit ==
    pc = "exited" => \A a \in ArchiveNames : handles[a] # "open"

\* C18: every key of the item table is a grid index in 0..1023 whose cell is
\* the (x, y) of the records filed under it, and every item attached to a
\* spot carries that spot's x and y
C18_KeysIdentifyCells ==
    /\ \A k \in DOMAIN mapdata.itemlump :
          /\ k \in Cells
          /\ \A j \in 1 .. Len(mapdata.itemlump[k]) :
                /\ mapdata.itemlump[k][j].x = SpotX(k)
                /\ mapdata.itemlump[k][j].y = SpotY(k)
    /\ pc = "initialized" =>
          \A t \in DOMAIN data : \A j \in 1 .. Len(data[t].itemdata) :
             /\ data[t].itemdata[j].x = data[t].x
             /\ data[t].itemdata[j].y = data[t].y

\* C19: draw() never invokes draw on an emptytile: no draw() of an open spot
\* with a floor tile ends in the exception of a draw looked up on the
\* sentinel items[0] among its items
C19_SentinelNeverDrawn ==
    \A i \in DOMAIN data :
       (lastspot = i /\ lastret = "raised") =>
          ~(/\ ~data[i].solid
            /\ HasDraw(data[i].floor)
            /\ \E j \in 1 .. Len(data[i].items) : data[i].items[j] = emptytile)

\* C20: once the mapper of a level is constructed, after any levels before
\* it, the keys of the creature table are exactly the actor ids of the
\* level's actor records, and each entry has the height of the flag of the
\* last record with its id: 64 for flag 8, -1 for flag 17, 0 otherwise
C20_CreaturesRebuilt ==
    pc = "initialized" =>
       \A r \in ActorRecords :
          mapdata.actorlump = ActorLump(r) =>
             /\ DOMAIN creatures = {r[j][1] : j \in 1 .. Len(r)}
             /\ \A j \in 1 .. Len(r) :
                   (\A i \in (j + 1) .. Len(r) : r[i][1] # r[j][1]) =>
                      creatures[r[j][1]].height =
                         (IF r[j][3] = 8 THEN 64 ELSE IF r[j][3] = 17 THEN 0 - 1 ELSE 0)
C20_Witness ==
    /\ pc = "initialized"
    /\ passes < MaxLevels
    /\ DOMAIN creatures = {8}
    /\ creatures[8].height = 0 - 1

\* C24: over depths at both ends of -255..255, negative ones included, two
\* prepare_size() calls on a tile get the same key only for the same
\* (wallorigin, ceildepth, floordepth) triple, and the faces a call gets were
\* generated from its own triple
C24_KeyInjective ==
    \A j, k \in 1 .. Len(calls) :
       /\ (calls[j].tile = calls[k].tile /\ calls[j].key = calls[k].key) =>
             SameTriple(calls[j], calls[k])
       /\ calls[j].face.wallorigin = calls[j].wallorigin
       /\ calls[j].face.ceildepth = calls[j].ceildepth
       /\ calls[j].face.floordepth = calls[j].floordepth
C24_Witness ==
    /\ Len(calls) = 2
    /\ calls[1].wallorigin = 0 - 255 /\ calls[1].ceildepth = 0 /\ calls[1].floordepth = 0 - 1
    /\ calls[2].wallorigin = 255 /\ calls[2].ceildepth = 254 /\ calls[2].floordepth = 0
    /\ calls[2].generated

\* C25: every stored crop rectangle has top max(ceildepth - (wallorigin -
\* image height), 0) and height floordepth - max(wallorigin - image height,
\* ceildepth), is not degenerate (height > 0) and lies inside the source image
\* (0 <= top, bottom <= image height)
ImageHeightOf(name) ==
    IF name \in DoorNames THEN doors(name).h
    ELSE WallLumps[CHOOSE j \in 1 .. Len(WallLumps) : WallLumps[j].name = name].h
C25_CropInsideImage ==
    \A name \in TileNames : \A key \in DOMAIN faces[name] :
       LET c == faces[name][key]
           h == ImageHeightOf(name)
       IN /\ c.top = Max2(c.ceildepth - (c.wallorigin - h), 0)
          /\ c.bottom - c.top = c.floordepth - Max2(c.wallorigin - h, c.ceildepth)
          /\ c.bottom - c.top > 0
          /\ 0 <= c.top
          /\ c.bottom <= h

\* C26: the centre line of every painted sprite image is displaced from the
\* cell origin isox by (subx - suby) to the right, the direction in which a
\* larger cell x moves isox, and its top edge is (subx + suby) / 2 lower than
\* that of the same sprite at sub-position (0, 0)
C26_SubTileProjection ==
    Drawn =>
      \A j \in SpriteImageOps :
        LET op == mappicture[j]
            tile == SpriteOfOp(DrawnSpot, op)
            rec == RecordOfOp(DrawnSpot, op)
        IN /\ IsoX(DrawnSpot.x + 1, DrawnSpot.y) > IsoX(DrawnSpot.x, DrawnSpot.y)
           /\ op.x + (tile.w \div 2) = DrawnSpot.isox + (rec.subx - rec.suby)
           /\ op.y = SpriteTop(tile, [rec EXCEPT !.subx = 0, !.suby = 0], DrawnSpot)
                        + (rec.subx + rec.suby) \div 2

\* C30: every item attached to a spot has suby = subx, so that its image is
\* painted centred on the vertical line through the cell origin isox; an
\* object keeps the subx and suby of its two record fields and is painted
\* off that line by their difference
C30_ItemsOnCentreLine ==
    /\ \A i \in DOMAIN data : \A j \in 1 .. Len(data[i].itemdata) :
          data[i].itemdata[j].suby = data[i].itemdata[j].subx
    /\ Drawn =>
         \A j \in SpriteImageOps :
            LET op == mappicture[j]
                tile == SpriteOfOp(DrawnSpot, op)
                rec == RecordOfOp(DrawnSpot, op)
            IN /\ op.kind = "item" => op.x + (tile.w \div 2) = DrawnSpot.isox
               /\ op.kind = "object" =>
                     DrawnSpot.isox - (op.x + (tile.w \div 2)) = rec.subx - rec.suby
C30_Witness ==
    /\ pc = "drawn"
    /\ \E j \in SpriteImageOps :
          /\ mappicture[j].kind = "item"
          /\ RecordOfOp(DrawnSpot, mappicture[j]).subx = 40
    /\ \E j \in SpriteImageOps :
          /\ mappicture[j].kind = "object"
          /\ RecordOfOp(DrawnSpot, mappicture[j]).subx
                # RecordOfOp(DrawnSpot, mappicture[j]).suby

\* the directory the scan was called on, once DatFile() has returned
Scanned == pc = "archive" /\ handles["cddat"] = "open" /\ Len(calls) = 1

\* the positions of the sized entries of a directory, and the position of
\* the entry that the k-th stored lump comes from
SizedAt(dir) == {p \in 1 .. Len(dir) : dir[p].size > 0}

EntryOfLump(dir, k) ==
    CHOOSE p \in SizedAt(dir) : Cardinality({q \in SizedAt(dir) : q <= p}) = k

\* a zero-size marker of the given name stands at position p
MarkerAt(dir, p, name) ==
    dir[p].size = 0 /\ dir[p].nameoffs > 0 /\ Lower(dir[p].name) = name

\* C23: from a zero-size 'startmonsters' marker until the next zero-size
\* 'endmonsters' marker every sized lump is filed under block 'monsters',
\* whatever other zero-size markers stand in between
C23_MonsterBlockDelimited ==
    Scanned =>
      LET dir == calls[1].dir
      IN \A k \in 1 .. Len(datlumps) :
            LET p == EntryOfLump(dir, k)
            IN (\E i \in 1 .. (p - 1) :
                   /\ MarkerAt(dir, i, "startmonsters")
                   /\ \A q \in (i + 1) .. (p - 1) : ~MarkerAt(dir, q, "endmonsters"))
               => datlumps[k].block = "monsters"

\* the group the rules of the scan give the entry at position p: the name of
\* the latest named entry up to p if that entry is sized, 'Unnamed' otherwise
GroupRule(dir, p) ==
    LET named == {q \in 1 .. p : dir[q].nameoffs > 0}
    IN IF named = {} THEN "Unnamed"
       ELSE LET q == CHOOSE q \in named : \A r \in named : r <= q
            IN IF dir[q].size = 0 THEN "Unnamed" ELSE Lower(dir[q].name)

BlockNames == {"General", "walls", "flats", "monsters", "newcursors"}

GroupNames == {"Unnamed", "door1"}

\* how often a lump occurs in a sequence of lumps
Occurrences(seq, lump) == Cardinality({j \in 1 .. Len(seq) : seq[j] = lump})

\* the scan stores exactly the sized entries, once each, under the block and
\* group current at the entry, and keeps the directory order per block
ScanStoresSized ==
    LET dir == calls[1].dir
    IN /\ Len(datlumps) = Cardinality(SizedAt(dir))
       /\ \A k \in 1 .. Len(datlumps) :
             LET p == EntryOfLump(dir, k)
                 lump == datlumps[k]
             IN /\ lump.size = dir[p].size /\ lump.name = dir[p].name
                /\ lump.size > 0
                /\ lump.block = DatScan(dir, p).block
                /\ lump.group = GroupRule(dir, p)
                /\ \A b \in BlockNames :
                      /\ Occurrences(idxdata(datlumps, b), lump)
                            = IF b = lump.block THEN 1 ELSE 0
                      /\ \A g \in GroupNames :
                            Occurrences(datadict(datlumps, b, g), lump)
                               = IF b = lump.block /\ g = lump.group THEN 1 ELSE 0
       /\ \A b \in BlockNames :
             LET idx == idxdata(datlumps, b)
             IN \A j, k \in 1 .. Len(idx) : j < k => idx[j].size < idx[k].size

\* the k-th sized entry of a block, counted in the directory
KthOfBlock(dir, b, k) ==
    LET inb == {p \in SizedAt(dir) : DatScan(dir, p).block = b}
        p == CHOOSE p \in inb : Cardinality({q \in inb : q <= p}) = k
    IN dir[p]

CountOfBlock(dir, b) ==
    Cardinality({p \in SizedAt(dir) : DatScan(dir, p).block = b})

WallIdResolves ==
    LET dir == calls[1].dir
    IN \A k \in 1 .. MaxEntries :
          IF k <= CountOfBlock(dir, "walls")
          THEN /\ loadwalls(datlumps, k).tile = "walltile"
               /\ loadwalls(datlumps, k).lump.size = KthOfBlock(dir, "walls", k).size
          ELSE loadwalls(datlumps, k).tile = "None"

FloorIdResolves(from) ==
    LET dir == calls[1].dir
    IN \A k \in from .. CountOfBlock(dir, "flats") :
          /\ loadfloors(datlumps, k).tile = "floortile"
          /\ loadfloors(datlumps, k).lump.size = KthOfBlock(dir, "flats", k).size

\* C28 as stated: after the scan the sized entries, and only they, are stored
\* once per table under the current block and group, in directory order, and
\* wall id k and floor id k (k >= 1) resolve to the k-th lump of the walls and
\* of the flats block
C28_AsStated ==
    Scanned => ScanStoresSized /\ WallIdResolves /\ FloorIdResolves(1)

\* C28, amended: the same, with floor id k resolving to the k-th lump of the
\* flats block for k >= 2 only; floor id 1 is the empty tile
C28_ScanStoresInOrder ==
    Scanned => /\ ScanStoresSized /\ WallIdResolves /\ FloorIdResolves(2)
               /\ loadfloors(datlumps, 1).tile = "emptytile"

C28_Witness ==
    /\ Scanned
    /\ Len(idxdata(datlumps, "walls")) = 2
    /\ Len(idxdata(datlumps, "flats")) = 0
    /\ Len(datadict(datlumps, "walls", "door1")) = 1
    /\ Len(datadict(datlumps, "walls", "Unnamed")) = 1
    /\ Len(calls[1].dir) = 3

\* a scan that met two lumps of the flats block
C28_TwoFlats == Scanned /\ Len(idxdata(datlumps, "flats")) = 2


\* the floor paste operations of the picture
FloorOps == {j \in 1 .. Len(mappicture) : mappicture[j].kind = "floor"}

\* the crop box is a non-empty rectangle inside the canvas
CropBoxInsideCanvas ==
    /\ 0 <= minx /\ minx < maxx /\ maxx <= CanvasWidth
    /\ 0 <= miny /\ miny < maxy /\ maxy <= CanvasHeight

\* C29: when save() crops a picture on which at least one cell was drawn, the
\* crop box is a non-empty rectangle inside the canvas and holds the 128 x 64
\* floor rectangle of every drawn cell (levels without height overrides)
C29_CropBoxHoldsFloors ==
    (pc = "saved" /\ mappicture # <<>>) =>
       /\ CropBoxInsideCanvas
       /\ \A j \in FloorOps :
             /\ minx <= mappicture[j].x /\ mappicture[j].x + 128 <= maxx
             /\ miny <= mappicture[j].y /\ mappicture[j].y + 64 <= maxy


\* a step of a constructed isomap leaves the level, its MapSpots (tiles,
\* depths, coordinates, solid flag, entity lists) and the creature table as
\* they are, and a second completed generate() left the picture and the crop
\* box the first one left
GenerateKeepsSpots ==
    /\ pc \in {"initialized", "generate", "generated", "saved"} =>
          UNCHANGED <<data, mapdata, catelogentry, maxceil, minfloor, creatures>>
    /\ Len(calls') = 2 =>
          /\ calls'[2].picture = calls'[1].picture
          /\ calls'[2].box = calls'[1].box

\* C27: after construction generate() changes no MapSpot, so a second
\* generate() paints the same operations in the same order and ends with the
\* same crop box; only the canvas, the box and the face caches change
C27_SpotsImmutable == [][GenerateKeepsSpots]_vars

\* two generate() calls completed on a level with walls, a door and sprites,
\* the second one served from the face caches
C27_Witness ==
    /\ pc = "generated" /\ passes = 0
    /\ Len(calls) = 2
    /\ Len(calls[2].picture) >= 8
    /\ \E j \in 1 .. Len(calls[2].picture) : calls[2].picture[j].kind = "northwall"
    /\ \E j \in 1 .. Len(calls[2].picture) : calls[2].picture[j].kind = "object"
    /\ \E name \in TileNames : DOMAIN faces[name] # {}
    /\ Len(gencalls) >= 2


\* the lump of the run was decoded by load()
Decodes(class, op) ==
    /\ pc = "decode"
    /\ datlumps[1].class = class
    /\ lasterr = Outcome(op, "none")

\* C21: a wall lump loaded with processmask has alpha 0 exactly at the
\* pixels whose source palette index is 0 and alpha 255 elsewhere; the pixel
\* (x, y) of the result is the pixel (y, x) of the source rows
C21_MaskRoundTrip ==
    Decodes("WallLump", "load masked") =>
       LET lump == datlumps[1]
           srcw == lump.qheight * 4
           out == lump.data
       IN /\ out.w = WallWidth /\ out.h = srcw
          /\ \A x \in 0 .. (out.w - 1), y \in 0 .. (out.h - 1) :
                LET source == lump.bytes[x * srcw + y]
                IN /\ PixelAt(out, x, y).value = source
                   /\ PixelAt(out, x, y).alpha = IF source = 0 THEN 0 ELSE 255

C21_Witness ==
    /\ Decodes("WallLump", "load masked")
    /\ datlumps[1].bytes[1] = 0 /\ datlumps[1].bytes[4] = 255
    /\ PixelAt(datlumps[1].data, 0, 1).alpha = 0
    /\ PixelAt(datlumps[1].data, 1, 0).alpha = 255
    /\ \E ofs \in DOMAIN datlumps[1].bytes : datlumps[1].bytes[ofs] = 255
                                             /\ datlumps[1].data.px[ofs].alpha = 0

\* the largest yEnd of the runs of a sprite lump (0 when it has none)
MaxYEnd(lump) ==
    SetMax({0} \cup {lump.columns[n].yend :
                       n \in {k \in 1 .. lump.width : lump.columns[k].offset > 0}})

\* C22: in a decoded sprite every column with a run (yEnd, yStart) holds
\* byte i of its yEnd - yStart + 1 bytes at row max(yEnd) - yEnd + i, opaque
\* iff the byte is not 0, every written buffer row yEnd - i lies in the 320
\* rows, and all other pixels, the columns with offset 0 included, are
\* transparent; the image is max(yEnd) + 1 rows high
C22_SpriteColumns ==
    (Decodes("SpriteLump", "load") /\ datlumps[1].width \in 1 .. 320) =>
       LET lump == datlumps[1]
           out == lump.data
           top == MaxYEnd(lump)
       IN /\ out.w = lump.width /\ out.h = top + 1
          /\ \A x \in 0 .. (out.w - 1) :
                LET col == lump.columns[x + 1]
                    colsize == IF col.offset > 0 THEN col.yend - col.ystart + 1 ELSE 0
                IN /\ colsize >= 0
                   /\ \A i \in 0 .. (colsize - 1) : col.yend - i \in 0 .. (BufferRows - 1)
                   /\ \A y \in 0 .. (out.h - 1) :
                         LET i == y - (top - col.yend)
                         IN IF i \in 0 .. (colsize - 1)
                            THEN /\ PixelAt(out, x, y).value = col.filebytes[i + 1]
                                 /\ PixelAt(out, x, y).alpha
                                       = IF col.filebytes[i + 1] # 0 THEN 255 ELSE 0
                            ELSE /\ PixelAt(out, x, y).value = 0
                                 /\ PixelAt(out, x, y).alpha = 0

\* the two-column sprite with the runs (yEnd 5, yStart 3) of non-zero bytes:
\* 3 opaque rows per column, the rows 0 .. 2 of the 6
C22_Witness ==
    /\ Decodes("SpriteLump", "load")
    /\ datlumps[1].width = 2
    /\ \A n \in 1 .. 2 : /\ datlumps[1].columns[n].offset > 0
                         /\ datlumps[1].columns[n].yend = 5
                         /\ datlumps[1].columns[n].ystart = 3
                         /\ datlumps[1].columns[n].filebytes = <<7, 7, 7, 9>>
    /\ datlumps[1].data.h = 6
    /\ \A x \in 0 .. 1 :
          {y \in 0 .. 5 : PixelAt(datlumps[1].data, x, y).alpha = 255} = 0 .. 2

====
